---- MODULE Spec2Model ----
(***************************************************************************)
(* Model of OCRtoODT: the layout reassembler                               *)
(* (ocrtoodt/i4_document_builder/odt_assembler.py, ODTAssembler), the word *)
(* grouper (ocrtoodt/i2_ocr/ocr_engine.py, _group_words_into_lines), the   *)
(* line classifier (ocrtoodt/i3_lines_analysis/lines_classifier.py), the   *)
(* orchestrator (ocrtoodt/i0_core/pipeline_orchestrator.py) and the worker *)
(* thread of the GUI (gui/worker.py, OCRWorker).                           *)
(*                                                                         *)
(* Text is a sequence of one-character strings.  A block of the document   *)
(* is a record [style, text, src]; src is a history field: the set of      *)
(* input rows <<idx, i>> (file index, row index, both 0-based as in the    *)
(* code) whose text was merged into the block.                             *)
(***************************************************************************)
EXTENDS Integers, Sequences, FiniteSets, TLC

VARIABLES
    cfg,                    \* ODTAssembler fields read by assemble_odt
    tsv_files,              \* argument of assemble_odt; after Begin: sorted(tsv_files)
    pc,                     \* position in assemble_odt
    idx,                    \* enumerate index of the file loop
    i,                      \* enumerate index of the line loop
    lines,                  \* parsed rows of the current file
    avg_line_height,        \* <<sum of heights, count>>, the mean as a fraction
    prev_ends_with_hyphen,
    current_text,           \* list of buffered paragraph fragments
    current_style,
    in_definition,
    def_text,               \* list of buffered definition fragments
    doc,                    \* doc.text: the emitted elements, in order
    saved,                  \* doc.save() has run
    current_src,            \* history: rows merged into current_text
    def_src,                \* history: rows merged into def_text
    caller,                 \* the caller of assemble_odt: the argument it passes,
                            \* the calls made, the document of the first call
    grouper,                \* frame of OCREngine._group_words_into_lines
    classifier,             \* frame of LineClassifier._classify_line or of
                            \* LineClassifier.classify_lines
    pipeline,               \* frame of run_pipeline, its page tasks and the files
                            \* they write
    worker                  \* the OCRWorker of the GUI: its run thread, its
                            \* subprocess, the cancel() call, the signals emitted

vars == <<cfg, tsv_files, pc, idx, i, lines, avg_line_height,
          prev_ends_with_hyphen, current_text, current_style, in_definition,
          def_text, doc, saved, current_src, def_src, caller, grouper, classifier,
          pipeline, worker>>

\* what assemble_odt does not touch
others == <<caller, grouper, classifier, pipeline, worker>>

(***************************************************************************)
(* Bounds of the model.                                                    *)
(***************************************************************************)
MaxLines == 2       \* rows in all files of a run, specifications Spec and SpecCfg
MaxPages == 2       \* files of a run, specifications Spec and SpecCfg
MaxLinesGeo == 3    \* rows in all files of a run: SpecGeo, SpecHyph, SpecScene
MaxPagesGeo == 2    \* files of a run: SpecGeo, SpecScene
MaxLinesPg == 3     \* rows in all files of a run, specification SpecPage
MaxPagesPg == 3     \* files of a run, specification SpecPage
MaxLinesTwice == 2  \* rows in all files of a run, specification SpecTwice
MaxPagesTwice == 2  \* files of a run, specification SpecTwice
MaxLinesLive == 2   \* rows in all files of a run, specification SpecLive
MaxPagesLive == 1   \* files of a run, specification SpecLive
MaxWords == 3       \* word records of a page, specification SpecWords
MaxLetters == 10    \* letters of a text, specification SpecClassify
MaxLinesLab == 2    \* rows in all files of a run, specification SpecLabels
MaxPagesLab == 2    \* files of a run, specification SpecLabels
MaxLinesBad == 2    \* rows in all files of a run, specification SpecMalformed
MaxPagesBad == 2    \* files of a run, specification SpecMalformed
MaxLinesGap == 3    \* rows in all files of a run, specification SpecGap
MaxPagesGap == 1    \* files of a run, specification SpecGap

(***************************************************************************)
(* Python str methods used by assemble_odt.                                *)
(***************************************************************************)
LowerChars == {"a", "b", "e", "l", "m", "n", "p", "x"}
UpperChars == {"A", "B", "C", "D", "E", "F", "G", "H", "I", "J", "K"}

RECURSIVE LStrip(_)
LStrip(s) ==
    IF s = <<>> THEN <<>>
    ELSE IF Head(s) = " " THEN LStrip(Tail(s)) ELSE s

RECURSIVE RStrip(_)
RStrip(s) ==
    IF s = <<>> THEN <<>>
    ELSE IF s[Len(s)] = " " THEN RStrip(SubSeq(s, 1, Len(s) - 1)) ELSE s

Strip(s) == LStrip(RStrip(s))

\* s.rstrip("-"): every trailing "-" is removed
RStripHyphen(s) ==
    LET keep == {k \in 1..Len(s) : s[k] # "-"}
        last == IF keep = {} THEN 0 ELSE CHOOSE k \in keep : \A j \in keep : j <= k
    IN  SubSeq(s, 1, last)

StartsWith(s, p) == Len(s) >= Len(p) /\ SubSeq(s, 1, Len(p)) = p

EndsWith(s, p) == Len(s) >= Len(p) /\ SubSeq(s, Len(s) - Len(p) + 1, Len(s)) = p

\* s.isupper(): no lowercase cased character and at least one uppercase one
IsUpperStr(s) ==
    /\ \A k \in 1..Len(s) : s[k] \notin LowerChars
    /\ \E k \in 1..Len(s) : s[k] \in UpperChars

Spaces(n) == [k \in 1..n |-> " "]

RECURSIVE Join(_, _)
\* sep.join(parts)
Join(sep, parts) ==
    IF parts = <<>> THEN <<>>
    ELSE IF Len(parts) = 1 THEN parts[1]
    ELSE parts[1] \o sep \o Join(sep, Tail(parts))

\* the last element of a list replaced
SetLast(parts, s) == [parts EXCEPT ![Len(parts)] = s]

Last(parts) == parts[Len(parts)]

(***************************************************************************)
(* Configuration read by ODTAssembler.__init__ (defaults of the code).     *)
(* The float definition_gap_threshold is kept in tenths.                   *)
(***************************************************************************)
DefaultConfig ==
    [ par_indent_min       |-> 290,
      par_indent_max       |-> 335,
      par_continue_max     |-> 125,
      par_indent_spaces    |-> 4,
      def_left_min         |-> 500,
      def_left_max         |-> 600,
      def_right_min        |-> 3900,
      def_right_max        |-> 3960,
      def_gap_threshold10  |-> 12,
      def_gap_min          |-> 40,
      insert_empty_lines   |-> FALSE,
      max_empty_lines      |-> 1 ]

\* a configuration whose continuation range overlaps the indent range
OverlapConfig == [DefaultConfig EXCEPT !.par_continue_max = 320]

DefTolerance == 50      \* widening of the window in the look-ahead
DividerLen == 65        \* "_" * 65
HeadingMinLen == 10     \* len(text_val) > 10

(***************************************************************************)
(* Elements of doc.text.                                                   *)
(***************************************************************************)
NoStyle == "none"       \* P(text="") carries no stylename

\* the names of the styles _ensure_styles adds to doc.styles
EnsureStyles ==
    {"Paragraph", "Heading", "Footnote", "Divider", "Definition", "PageBreakParagraph"}

P(stylename, text, src) == [style |-> stylename, text |-> text, src |-> src]

PageBreakP == P("PageBreakParagraph", <<>>, {})
SpacerP == P(NoStyle, <<>>, {})
DividerP == P("Divider", [k \in 1..DividerLen |-> "_"], {})

AddElementFront(d, p) == <<p>> \o d

\* doc.text.addElement(p)
AddElement(d, p) == Append(d, p)

OpenDocumentKept == doc

\* doc = OpenDocumentText(): a document without elements
OpenDocumentText == <<>>

(***************************************************************************)
(* sorted(tsv_files): the paths are compared as strings.  A file is        *)
(* [page_num, rows]; its path is page_{page_num:04d}.tsv.                   *)
(***************************************************************************)
RECURSIVE Digits(_)
Digits(n) == IF n < 10 THEN <<n>> ELSE Append(Digits(n \div 10), n % 10)

\* f"{n:04d}"
Pad4(n) ==
    LET d == Digits(n)
    IN  IF Len(d) >= 4 THEN d ELSE [k \in 1..(4 - Len(d)) |-> 0] \o d

RECURSIVE LexLess(_, _)
\* string comparison of two digit runs followed by ".tsv" ("." sorts before "0")
LexLess(a, b) ==
    IF a = <<>> THEN b # <<>>
    ELSE IF b = <<>> THEN FALSE
    ELSE IF Head(a) # Head(b) THEN Head(a) < Head(b)
    ELSE LexLess(Tail(a), Tail(b))

PathLess(f, g) == LexLess(Pad4(f.page_num), Pad4(g.page_num))

RECURSIVE InsertSorted(_, _)
InsertSorted(f, s) ==
    IF s = <<>> THEN <<f>>
    ELSE IF PathLess(f, Head(s)) THEN <<f>> \o s
    ELSE <<Head(s)>> \o InsertSorted(f, Tail(s))

RECURSIVE SortFiles(_)
\* sorted(tsv_files), stable
SortFiles(fs) ==
    IF fs = <<>> THEN <<>>
    ELSE InsertSorted(Last(fs), SortFiles(SubSeq(fs, 1, Len(fs) - 1)))

(***************************************************************************)
(* Per-line values computed at the top of the loop body.                   *)
(***************************************************************************)
\* the value pd.read_csv gives an empty field, and what str() makes of a value
NaN == <<"float('nan')">>

Str(v) == IF v = NaN THEN <<"n", "a", "n">> ELSE v

\* a bbox cell that is missing, or whose text eval cannot turn into a list of
\* four numbers
Malformed == <<"malformed">>

\* eval(line["bbox"]), bbox[3] - bbox[1] raise for some row of the file
EvalRaises(rows) == \E k \in 1..Len(rows) : rows[k].bbox = Malformed

\* pd.read_csv(tsv_file, sep="\t"), then eval of the bbox column
ReadCsv(rows) ==
    [k \in 1..Len(rows) |->
        [rows[k] EXCEPT !.text = IF @ = <<>> THEN NaN ELSE @]]

TextValLabelled(line) == IF line.cls = "TITLE" THEN <<>> ELSE Strip(Str(line.text))

\* str(line["text"]).strip()
TextVal(line) == Strip(Str(line.text))

IsUpperInclusive(text_val) == IsUpperStr(text_val) /\ Len(text_val) >= HeadingMinLen

\* text_val.isupper() and len(text_val) > 10
IsUpper(text_val) == IsUpperStr(text_val) /\ Len(text_val) > HeadingMinLen

IsFootnote(text_val) == StartsWith(text_val, <<"*">>)

EndsWithHyphenAny(text_val) == EndsWith(text_val, <<"-">>)

\* text_val.endswith("-") and not text_val.endswith("--")
EndsWithHyphen(text_val) ==
    EndsWith(text_val, <<"-">>) /\ ~EndsWith(text_val, <<"-", "-">>)

StyleOf(text_val) ==
    IF IsFootnote(text_val) THEN "Footnote"
    ELSE IF IsUpper(text_val) THEN "Heading"
    ELSE "Paragraph"

IsDefLine(c, bbox) ==
    /\ c.def_left_min <= bbox[1] /\ bbox[1] <= c.def_left_max
    /\ c.def_right_min <= bbox[3] /\ bbox[3] <= c.def_right_max

NextIsDefNever(c, bbox) == FALSE

NextIsDefExact(c, bbox) == IsDefLine(c, bbox)

\* the look-ahead test of the next row, window widened by 50px
NextIsDef(c, bbox) ==
    /\ c.def_left_min - DefTolerance <= bbox[1] /\ bbox[1] <= c.def_left_max + DefTolerance
    /\ c.def_right_min - DefTolerance <= bbox[3] /\ bbox[3] <= c.def_right_max + DefTolerance

Max(a, b) == IF a >= b THEN a ELSE b

GapReached(c, avg, gap) ==
    /\ gap >= c.def_gap_min
    /\ gap * 10 * avg[2] >= c.def_gap_threshold10 * avg[1]

\* gap > max(def_gap_min, def_gap_threshold * avg_line_height), avg = sum/count
GapExceeds(c, avg, gap) ==
    /\ gap > c.def_gap_min
    /\ gap * 10 * avg[2] > c.def_gap_threshold10 * avg[1]

InIndentRange(c, x1) == c.par_indent_min <= x1 /\ x1 <= c.par_indent_max

\* avg_line_height = float(np.mean(heights)) if heights else 1.0
RECURSIVE SumHeights(_)
SumHeights(rows) ==
    IF rows = <<>> THEN 0
    ELSE (Head(rows).bbox[4] - Head(rows).bbox[2]) + SumHeights(Tail(rows))

AvgLineHeight(rows) ==
    IF rows = <<>> THEN <<1, 1>> ELSE <<SumHeights(rows), Len(rows)>>

(***************************************************************************)
(* Input rows.  A kind is a row without its vertical position; a page is   *)
(* laid out top to bottom, each row gap pixels below the previous one.     *)
(***************************************************************************)
tExam   == <<"e", "x", "a", "m", "-">>
tPle    == <<"p", "l", "e">>
tDashes == <<"a", "b", "-", "-">>
tNote   == <<"*", "n">>
tHead11 == <<"A", "B", "C", "D", "E", "F", "G", "H", "I", "J", "K">>
tHead10 == <<"A", "B", "C", "D", "E", "F", "G", "H", "I", "J">>
tBlank  == <<" ">>
tHyphen == <<"-">>
tNoteHy == <<"*", "n", "-">>
tEmpty  == <<>>             \* an empty text field of the file

xCont   == <<0, 3000>>      \* x1 < paragraph_continue_max
xIndent == <<300, 3000>>    \* x1 in the paragraph indent range
xOther  == <<700, 3000>>    \* none of the ranges
xDef    == <<550, 3930>>    \* inside the definition window
xNear   == <<620, 3930>>    \* outside the window, inside the widened one
xEdge   == <<650, 3930>>    \* on the left edge of the widened window
xOut    == <<651, 3930>>    \* one pixel outside the widened window

Kind(text, x, gap, h) == [text |-> text, x1 |-> x[1], x2 |-> x[2], gap |-> gap, h |-> h]

Kinds ==
    ({Kind(t, x, 10, 40) :
        t \in {tExam, tPle, tNote, tHead11}, x \in {xCont, xIndent, xOther, xDef}}
        \ {Kind(tExam, xDef, 10, 40)})
        \cup {Kind(tHead10, xOther, 10, 40), Kind(tBlank, xCont, 10, 40)}

CfgKinds ==
    {Kind(t, x, 10, 40) : t \in {tExam, tPle, tNote, tHead11}, x \in {xCont, xIndent, xOther}}
        \cup {Kind(tPle, xDef, 10, 40), Kind(tBlank, xDef, 10, 40)}

HyphKinds ==
    {Kind(t, x, 10, 40) : t \in {tExam, tPle, tDashes, tHyphen}, x \in {xCont, xOther, xDef}}
        \cup {Kind(tPle, xIndent, 10, 40), Kind(tBlank, xCont, 10, 40)}

GeoKinds ==
    { Kind(tPle, xDef, 10, 40),  Kind(tExam, xDef, 60, 40),
      Kind(tBlank, xDef, 10, 40), Kind(tPle, xNear, 10, 40),
      Kind(tPle, xOther, 10, 40), Kind(tPle, xIndent, 60, 40),
      Kind(tNote, xCont, 10, 40) }

\* rows for the page boundaries: a paragraph that ends in a hyphen, a
\* continuation, a definition, a blank row inside the window
TwiceKinds ==
    { Kind(tExam, xIndent, 10, 40), Kind(tPle, xCont, 10, 40),
      Kind(tPle, xDef, 10, 40),     Kind(tBlank, xDef, 10, 40) }

\* the same, and an empty field
PageKinds == TwiceKinds \cup {Kind(tEmpty, xCont, 10, 40)}

\* rows of height 40, so that the gap threshold is max(40, 1.2 * 40) = 48:
\* rows 48 and 49 below the row before them, inside and outside the window;
\* rows on the edge of the widened window and just outside it
GapKinds ==
    { Kind(tPle, xDef, 10, 40),   Kind(tPle, xDef, 48, 40),
      Kind(tPle, xDef, 49, 40),   Kind(tPle, xOther, 48, 40),
      Kind(tPle, xOther, 49, 40), Kind(tPle, xIndent, 10, 40),
      Kind(tPle, xCont, 10, 40),  Kind(tBlank, xCont, 10, 40),
      Kind(tPle, xEdge, 10, 40),  Kind(tPle, xOut, 10, 40) }

\* rows for the title, paragraph and footnote scenario
SceneKinds ==
    { Kind(tHead11, xOther, 10, 40), Kind(tHead10, xOther, 10, 40),
      Kind(tPle, xIndent, 10, 40),   Kind(tNote, xCont, 10, 40),
      Kind(tNote, xIndent, 10, 40),  Kind(tNote, xDef, 10, 40),
      Kind(tBlank, xCont, 10, 40),   Kind(tNoteHy, xIndent, 10, 40),
      Kind(tNoteHy, xOther, 10, 40), Kind(tPle, xCont, 10, 40),
      Kind(tBlank, xIndent, 10, 40) }

RECURSIVE Layout(_, _)
Layout(kseq, y0) ==
    IF kseq = <<>> THEN <<>>
    ELSE LET k  == Head(kseq)
             y1 == y0 + k.gap
             y2 == y1 + k.h
         IN  <<[text |-> k.text, bbox |-> <<k.x1, y1, k.x2, y2>>]>>
                 \o Layout(Tail(kseq), y2)

RECURSIVE SumSeq(_)
SumSeq(s) == IF s = <<>> THEN 0 ELSE Head(s) + SumSeq(Tail(s))

\* the files of a run: flat cut into pages of the given lengths
Files(flat, lens) ==
    [k \in 1..Len(lens) |->
        [page_num |-> k,
         rows |-> Layout(SubSeq(flat, SumSeq(SubSeq(lens, 1, k - 1)) + 1,
                                      SumSeq(SubSeq(lens, 1, k))), 0)]]

Reverse(s) == [k \in 1..Len(s) |-> s[Len(s) + 1 - k]]

\* no call of the word grouper, no call of the classifier
IdleFrame == [pc |-> "idle"]

\* the assembler constructed with configuration c, assemble_odt(files) called
AssemblerInit(c, files) ==
    /\ cfg = c
    /\ tsv_files = files
    /\ pc = "begin"
    /\ idx = 0
    /\ i = 0
    /\ lines = <<>>
    /\ avg_line_height = <<1, 1>>
    /\ prev_ends_with_hyphen = FALSE
    /\ current_text = <<>>
    /\ current_style = "Paragraph"
    /\ in_definition = FALSE
    /\ def_text = <<>>
    /\ doc = <<>>
    /\ saved = FALSE
    /\ current_src = {}
    /\ def_src = {}
    /\ caller = [tsv_files |-> files, calls |-> 1, first_doc |-> <<>>]

InitState(c, files) ==
    /\ AssemblerInit(c, files)
    /\ grouper = IdleFrame
    /\ classifier = IdleFrame
    /\ pipeline = IdleFrame
    /\ worker = IdleFrame

\* the arguments of a run: at most maxPages files with at most maxLines rows
\* in all, handed over in ascending or in descending order of their names
InitWith(c, kinds, maxLines, maxPages) ==
    \E n \in 0..maxLines, np \in 0..maxPages :
        \E flat \in [1..n -> kinds] :
            \E lens \in [1..np -> 0..n] :
                /\ SumSeq(lens) = n
                /\ \E rev \in BOOLEAN :
                       InitState(c, IF rev THEN Reverse(Files(flat, lens))
                                          ELSE Files(flat, lens))

Init == InitWith(DefaultConfig, Kinds, MaxLines, MaxPages)

InitGeo == InitWith(DefaultConfig, GeoKinds, MaxLinesGeo, MaxPagesGeo)

\* one file
InitHyph == InitWith(DefaultConfig, HyphKinds, MaxLinesGeo, 1)

InitPage == InitWith(DefaultConfig, PageKinds, MaxLinesPg, MaxPagesPg)

InitTwice == InitWith(DefaultConfig, TwiceKinds, MaxLinesTwice, MaxPagesTwice)

InitLive == InitWith(DefaultConfig, TwiceKinds, MaxLinesLive, MaxPagesLive)

InitGap == InitWith(DefaultConfig, GapKinds, MaxLinesGap, MaxPagesGap)

InitScene == InitWith(DefaultConfig, SceneKinds, MaxLinesGeo, MaxPagesGeo)

InitCfg == \E c \in {DefaultConfig, OverlapConfig} : InitWith(c, CfgKinds, MaxLines, MaxPages)

(***************************************************************************)
(* assemble_odt.                                                           *)
(***************************************************************************)
\* up to the head of the file loop: sorted(tsv_files).  Every file of the
\* model exists, so the existence check passes.
Begin ==
    /\ pc = "begin"
    /\ doc' = OpenDocumentText
    /\ tsv_files' = SortFiles(tsv_files)
    /\ idx' = 0
    /\ pc' = IF tsv_files = <<>> THEN "save" ELSE "page"
    /\ UNCHANGED <<cfg, i, lines, avg_line_height, prev_ends_with_hyphen,
                   current_text, current_style, in_definition, def_text,
                   saved, current_src, def_src>>
    /\ UNCHANGED others

NeedsPageBreakAlways(k) == k >= 0

\* if idx > 0
NeedsPageBreak(k) == k > 0

PageStartTextKept == current_text

\* current_text = [] at the head of the file loop
PageStartText == <<>>

\* head of the file loop: page break, state reset, rows read and parsed; an
\* exception of the parsing is caught nowhere and ends the call
StartPage ==
    /\ pc = "page"
    /\ doc' = IF NeedsPageBreak(idx) THEN AddElement(doc, PageBreakP) ELSE doc
    /\ prev_ends_with_hyphen' = FALSE
    /\ current_text' = PageStartText
    /\ current_style' = "Paragraph"
    /\ in_definition' = FALSE
    /\ def_text' = <<>>
    /\ current_src' = IF PageStartText = <<>> THEN {} ELSE current_src
    /\ def_src' = {}
    /\ lines' = ReadCsv(tsv_files[idx + 1].rows)
    /\ IF EvalRaises(tsv_files[idx + 1].rows)
       THEN /\ pc' = "raised"
            /\ UNCHANGED avg_line_height
       ELSE /\ pc' = "line"
            /\ avg_line_height' = AvgLineHeight(tsv_files[idx + 1].rows)
    /\ i' = 0
    /\ UNCHANGED <<cfg, tsv_files, idx, saved>>
    /\ UNCHANGED others

\* the branch condition "is_def_line or in_definition"
InDefBranchUnlessFootnote(c, line) ==
    (IsDefLine(c, line.bbox) /\ ~IsFootnote(TextVal(line))) \/ in_definition

InDefBranch(c, line) == IsDefLine(c, line.bbox) \/ in_definition

ContinuesUnlessIndent(c, x1) ==
    x1 < c.par_continue_max /\ current_text # <<>> /\ ~InIndentRange(c, x1)

ContinuesWrongSide(c, x1) == x1 > c.par_continue_max /\ current_text # <<>>

\* the branch condition "x1 < self.par_continue_max and current_text"
Continues(c, x1) == x1 < c.par_continue_max /\ current_text # <<>>

HyphenJoinKeep(fragment, text_val) == fragment \o LStrip(text_val)

\* fragment.rstrip("-") + text_val.lstrip()
HyphenJoin(fragment, text_val) == RStripHyphen(fragment) \o LStrip(text_val)

BufferAfterFlushKept == current_text

\* current_text = [] after the open paragraph is emitted ahead of a definition
BufferAfterFlush == <<>>

FlushParagraphNever(d) == d

\* "".join(current_text) emitted with current_style, when there is any
FlushParagraph(d) ==
    IF current_text # <<>>
    THEN AddElement(d, P(current_style, Join(<<>>, current_text), current_src))
    ELSE d

AtLine == pc = "line" /\ i < Len(lines)

\* if not text_val: continue
SkipEmptyLine ==
    /\ AtLine
    /\ TextVal(lines[i + 1]) = <<>>
    /\ i' = i + 1
    /\ UNCHANGED <<cfg, tsv_files, pc, idx, lines, avg_line_height,
                   prev_ends_with_hyphen, current_text, current_style,
                   in_definition, def_text, doc, saved, current_src, def_src>>
    /\ UNCHANGED others

NextRowBeyond(ls, k) == ls[IF k + 3 <= Len(ls) THEN k + 3 ELSE k + 2]

\* lines[i + 1], the row the look-ahead reads
NextRow(ls, k) == ls[k + 2]

\* the branch "if is_def_line or in_definition"
DefinitionLine ==
    /\ AtLine
    /\ LET line        == lines[i + 1]
           text_val    == TextVal(line)
           bbox        == line.bbox
           is_def_line == IsDefLine(cfg, bbox)
           opening     == is_def_line /\ ~in_definition
           has_next    == i + 1 < Len(lines)
           next_is_def == has_next /\ NextIsDef(cfg, NextRow(lines, i).bbox)
           gap_before  == Max(0, bbox[2] - lines[i].bbox[4])
           gap_after   == Max(0, NextRow(lines, i).bbox[2] - bbox[4])
           d1  == IF opening THEN FlushParagraph(doc) ELSE doc
           d2  == IF opening /\ i > 0 /\ GapExceeds(cfg, avg_line_height, gap_before)
                  THEN AddElement(d1, SpacerP) ELSE d1
           dt0 == IF opening THEN <<>> ELSE def_text
           ds0 == IF opening THEN {} ELSE def_src
           dt1 == IF dt0 # <<>> /\ prev_ends_with_hyphen
                  THEN SetLast(dt0, HyphenJoin(Last(dt0), text_val))
                  ELSE Append(dt0, text_val)
           ds1 == ds0 \cup {<<idx, i>>}
           d3  == IF ~next_is_def /\ dt1 # <<>>
                  THEN AddElement(d2, P("Definition", Join(<<" ">>, dt1), ds1)) ELSE d2
           d4  == IF /\ ~next_is_def
                     /\ has_next
                     /\ \/ GapExceeds(cfg, avg_line_height, gap_after)
                        \/ InIndentRange(cfg, NextRow(lines, i).bbox[1])
                  THEN AddElement(d3, SpacerP) ELSE d3
       IN  /\ text_val # <<>>
           /\ InDefBranch(cfg, line)
           /\ doc' = d4
           /\ current_text' = IF opening THEN BufferAfterFlush ELSE current_text
           /\ current_src' = IF opening /\ BufferAfterFlush = <<>> THEN {} ELSE current_src
           /\ in_definition' = next_is_def
           /\ def_text' = IF next_is_def THEN dt1 ELSE <<>>
           /\ def_src' = IF next_is_def THEN ds1 ELSE {}
           /\ prev_ends_with_hyphen' = (next_is_def /\ EndsWithHyphen(text_val))
    /\ i' = i + 1
    /\ UNCHANGED <<cfg, tsv_files, pc, idx, lines, avg_line_height,
                   current_style, saved>>
    /\ UNCHANGED others

\* the continuation of a paragraph: hyphen join, or a space and the text
MergeInto(fragment, text_val) ==
    IF prev_ends_with_hyphen
    THEN HyphenJoin(fragment, text_val)
    ELSE fragment \o <<" ">> \o text_val

\* the branch "if x1 < self.par_continue_max and current_text"
ContinueParagraph ==
    /\ AtLine
    /\ LET line     == lines[i + 1]
           text_val == TextVal(line)
       IN  /\ text_val # <<>>
           /\ ~InDefBranch(cfg, line)
           /\ Continues(cfg, line.bbox[1])
           /\ current_text' = SetLast(current_text, MergeInto(Last(current_text), text_val))
           /\ current_src' = current_src \cup {<<idx, i>>}
           /\ prev_ends_with_hyphen' = EndsWithHyphen(text_val)
    /\ i' = i + 1
    /\ UNCHANGED <<cfg, tsv_files, pc, idx, lines, avg_line_height,
                   current_style, in_definition, def_text, doc, saved, def_src>>
    /\ UNCHANGED others

\* the branch "if self.par_indent_min <= x1 <= self.par_indent_max"
NewParagraph ==
    /\ AtLine
    /\ LET line     == lines[i + 1]
           text_val == TextVal(line)
       IN  /\ text_val # <<>>
           /\ ~InDefBranch(cfg, line)
           /\ ~Continues(cfg, line.bbox[1])
           /\ InIndentRange(cfg, line.bbox[1])
           /\ doc' = FlushParagraph(doc)
           /\ current_text' = <<Spaces(cfg.par_indent_spaces) \o text_val>>
           /\ current_style' = StyleOf(text_val)
           /\ current_src' = {<<idx, i>>}
           /\ prev_ends_with_hyphen' = EndsWithHyphen(text_val)
    /\ i' = i + 1
    /\ UNCHANGED <<cfg, tsv_files, pc, idx, lines, avg_line_height,
                   in_definition, def_text, saved, def_src>>
    /\ UNCHANGED others

\* the rest of the loop body: hyphen join or new block, then the footnote
FallbackLine ==
    /\ AtLine
    /\ LET line     == lines[i + 1]
           text_val == TextVal(line)
           join     == prev_ends_with_hyphen /\ current_text # <<>>
           foot     == IsFootnote(text_val)
           d1       == IF join THEN doc ELSE FlushParagraph(doc)
       IN  /\ text_val # <<>>
           /\ ~InDefBranch(cfg, line)
           /\ ~Continues(cfg, line.bbox[1])
           /\ ~InIndentRange(cfg, line.bbox[1])
           /\ doc' = IF foot
                     THEN AddElement(AddElement(d1, DividerP),
                                     P("Footnote", text_val, {<<idx, i>>}))
                     ELSE d1
           /\ current_text' =
                  IF foot THEN <<>>
                  ELSE IF join
                       THEN SetLast(current_text, HyphenJoin(Last(current_text), text_val))
                       ELSE <<text_val>>
           /\ current_style' =
                  IF foot THEN "Paragraph"
                  ELSE IF join THEN current_style ELSE StyleOf(text_val)
           /\ current_src' =
                  IF foot THEN {}
                  ELSE IF join THEN current_src \cup {<<idx, i>>} ELSE {<<idx, i>>}
           /\ prev_ends_with_hyphen' = (~foot /\ EndsWithHyphen(text_val))
    /\ i' = i + 1
    /\ UNCHANGED <<cfg, tsv_files, pc, idx, lines, avg_line_height,
                   in_definition, def_text, saved, def_src>>
    /\ UNCHANGED others

MorePagesNever(k, files) == FALSE

\* the file loop has another file to take
MorePages(k, files) == k + 1 < Len(files)

\* after the line loop: the open definition and the open paragraph are emitted
FlushesDefinitionNever(open, buffer) == FALSE

\* if in_definition and def_text, after the row loop
FlushesDefinition(open, buffer) == open /\ buffer # <<>>

EndPage ==
    /\ pc = "line"
    /\ i >= Len(lines)
    /\ LET flush_def == FlushesDefinition(in_definition, def_text)
           d1 == IF flush_def
                 THEN AddElement(doc, P("Definition", Join(<<" ">>, def_text), def_src))
                 ELSE doc
       IN  /\ doc' = FlushParagraph(d1)
           /\ in_definition' = (in_definition /\ ~flush_def)
           /\ def_text' = IF flush_def THEN <<>> ELSE def_text
           /\ def_src' = IF flush_def THEN {} ELSE def_src
    /\ idx' = idx + 1
    /\ pc' = IF MorePages(idx, tsv_files) THEN "page" ELSE "save"
    /\ UNCHANGED <<cfg, tsv_files, i, lines, avg_line_height,
                   prev_ends_with_hyphen, current_text, current_style, saved,
                   current_src>>
    /\ UNCHANGED others

\* doc.save(odt_output), return
Save ==
    /\ pc = "save"
    /\ saved' = TRUE
    /\ pc' = "done"
    /\ UNCHANGED <<cfg, tsv_files, idx, i, lines, avg_line_height,
                   prev_ends_with_hyphen, current_text, current_style,
                   in_definition, def_text, doc, current_src, def_src>>
    /\ UNCHANGED others

Next ==
    \/ Begin
    \/ StartPage
    \/ SkipEmptyLine
    \/ DefinitionLine
    \/ ContinueParagraph
    \/ NewParagraph
    \/ FallbackLine
    \/ EndPage
    \/ Save

\* the caller calls assemble_odt a second time, on the same assembler and
\* with the same argument; the locals of the first call are left as they
\* were, any value being as good as another for an unbound local
SecondCall ==
    /\ pc = "done"
    /\ caller.calls = 1
    /\ caller' = [caller EXCEPT !.calls = 2, !.first_doc = doc]
    /\ tsv_files' = caller.tsv_files
    /\ pc' = "begin"
    /\ saved' = FALSE
    /\ UNCHANGED <<cfg, idx, i, lines, avg_line_height, prev_ends_with_hyphen,
                   current_text, current_style, in_definition, def_text, doc,
                   current_src, def_src, grouper, classifier, pipeline, worker>>

NextTwice == Next \/ SecondCall

Spec == Init /\ [][Next]_vars

SpecGeo == InitGeo /\ [][Next]_vars

SpecCfg == InitCfg /\ [][Next]_vars

SpecHyph == InitHyph /\ [][Next]_vars

SpecScene == InitScene /\ [][Next]_vars

SpecGap == InitGap /\ [][Next]_vars

SpecPage == InitPage /\ [][Next]_vars

(***************************************************************************)
(* Files whose rows carry, beside text and bbox, the columns cls and       *)
(* centered: the labels a classifier may have attached to the lines, or    *)
(* "none" in both when no classifier has run.  The rows read from such a   *)
(* file keep these columns (line = dict of the whole row).                 *)
(***************************************************************************)
Labels == {[cls |-> "none", centered |-> "none"],
           [cls |-> "TITLE", centered |-> "True"],
           [cls |-> "PARAGRAPH", centered |-> "False"]}

LabelKinds ==
    { Kind(tHead11, xOther, 10, 40), Kind(tPle, xIndent, 10, 40),
      Kind(tPle, xCont, 10, 40),     Kind(tPle, xDef, 10, 40),
      Kind(tBlank, xCont, 10, 40) }

\* the rows before the first row of file k
RowsBefore(files, k) == SumSeq([j \in 1..(k - 1) |-> Len(files[j].rows)])

\* the files with the label labs[n] on the n-th row of the run
Labelled(files, labs) ==
    [k \in 1..Len(files) |->
        [page_num |-> files[k].page_num,
         rows |-> [j \in 1..Len(files[k].rows) |->
                      [text |-> files[k].rows[j].text,
                       bbox |-> files[k].rows[j].bbox,
                       cls |-> labs[RowsBefore(files, k) + j].cls,
                       centered |-> labs[RowsBefore(files, k) + j].centered]]]]

\* the same files when no classifier has run
Unlabelled(files) ==
    [k \in 1..Len(files) |->
        [page_num |-> files[k].page_num,
         rows |-> [j \in 1..Len(files[k].rows) |->
                      [files[k].rows[j] EXCEPT !.cls = "none", !.centered = "none"]]]]

InitLabels ==
    \E n \in 0..MaxLinesLab, np \in 0..MaxPagesLab :
        \E flat \in [1..n -> LabelKinds], labs \in [1..n -> Labels] :
            \E lens \in [1..np -> 0..n] :
                /\ SumSeq(lens) = n
                /\ InitState(DefaultConfig, Labelled(Files(flat, lens), labs))

\* the caller calls assemble_odt a second time, on the files without the
\* labels of the first call
SecondCallUnlabelled ==
    /\ pc = "done"
    /\ caller.calls = 1
    /\ caller' = [caller EXCEPT !.calls = 2, !.first_doc = doc]
    /\ tsv_files' = Unlabelled(caller.tsv_files)
    /\ pc' = "begin"
    /\ saved' = FALSE
    /\ UNCHANGED <<cfg, idx, i, lines, avg_line_height, prev_ends_with_hyphen,
                   current_text, current_style, in_definition, def_text, doc,
                   current_src, def_src, grouper, classifier, pipeline, worker>>

NextLabels == Next \/ SecondCallUnlabelled

\* a run on labelled files, then a run on the files without labels
SpecLabels == InitLabels /\ [][NextLabels]_vars

\* the files with the bbox cell of the n-th row of the run malformed; n = 0
\* leaves every row as it is
CorruptRow(files, n) ==
    [k \in 1..Len(files) |->
        [page_num |-> files[k].page_num,
         rows |-> [j \in 1..Len(files[k].rows) |->
                      IF RowsBefore(files, k) + j = n
                      THEN [files[k].rows[j] EXCEPT !.bbox = Malformed]
                      ELSE files[k].rows[j]]]]

InitMalformed ==
    \E n \in 0..MaxLinesBad, np \in 0..MaxPagesBad :
        \E flat \in [1..n -> TwiceKinds], bad \in 0..n :
            \E lens \in [1..np -> 0..n] :
                /\ SumSeq(lens) = n
                /\ InitState(DefaultConfig, CorruptRow(Files(flat, lens), bad))

\* runs on files of which one row may be malformed
SpecMalformed == InitMalformed /\ [][Next]_vars

\* two calls in a row
SpecTwice == InitTwice /\ [][NextTwice]_vars

\* the call is not suspended: while it has a step to take, it takes one
SpecLive == InitLive /\ [][Next]_vars /\ WF_vars(Next)

(***************************************************************************)
(* OCREngine._group_words_into_lines(tsv_dict, page_num).  A word record   *)
(* is the i-th entry of the lists of tsv_dict; its field bad names the     *)
(* list whose i-th entry is missing or not of the expected type ("none"    *)
(* when the record is well-formed): the code raises when it reads that     *)
(* entry.  The frame of the call is the record grouper; its field          *)
(* current_src and the field src of a line are history: the indices of     *)
(* the words of the group.                                                 *)
(***************************************************************************)
None == <<"None">>

Min(a, b) == IF a <= b THEN a ELSE b

\* the loop body ends in "continue" before it has changed anything: the
\* text is empty, a size is not positive, or reading the record raises
Skipped(w) ==
    IF w.bad = "text" THEN TRUE                          \* raises at line 175
    ELSE IF Strip(w.text) = <<>> THEN TRUE               \* continue, line 177
    ELSE IF w.bad = "width" THEN TRUE                    \* raises at line 178
    ELSE IF w.width <= 0 THEN TRUE                       \* continue, line 179
    ELSE IF w.bad = "height" THEN TRUE                   \* raises at line 178
    ELSE IF w.height <= 0 THEN TRUE                      \* continue, line 179
    ELSE w.bad # "none"                                  \* raises at lines 181-183

WordBox(w) == <<w.left, w.top, w.left + w.width, w.top + w.height>>

WordKey(w) == <<w.block_num, w.par_num, w.line_num>>

SameKeyLineOnly(key, prev_key) == key[3] = prev_key[3]

\* key == prev_key
SameKey(key, prev_key) == key = prev_key

RECURSIVE InsertByX(_, _)
InsertByX(t, sorted) ==
    IF sorted = <<>> THEN <<t>>
    ELSE IF t[2] < Head(sorted)[2] THEN <<t>> \o sorted
    ELSE <<Head(sorted)>> \o InsertByX(t, Tail(sorted))

RECURSIVE SortByX(_)
\* current_line.sort(key=lambda t: t[1]), stable
SortByX(ts) ==
    IF ts = <<>> THEN <<>>
    ELSE InsertByX(Last(ts), SortByX(SubSeq(ts, 1, Len(ts) - 1)))

LineNoKept(n) == n

\* line_no += 1
NextLineNo(n) == n + 1

\* the group is closed: sorted, joined, appended to lines
CloseLine(g) ==
    LET sorted == SortByX(g.current_line)
        text   == Strip(Join(<<" ">>, [k \in 1..Len(sorted) |-> sorted[k][1]]))
    IN  Append(g.lines, [page |-> g.page_num, line_no |-> g.line_no,
                         text |-> text, bbox |-> g.current_bbox,
                         src |-> g.current_src])

SkipWordForgetKey(g) == [g EXCEPT !.i = @ + 1, !.prev_key = None]

\* "continue": on to the next word
SkipWord(g) == [g EXCEPT !.i = @ + 1]

\* one pass of the loop body, for the word at index g.i
LoopBody(g) ==
    LET w   == g.words[g.i + 1]
        txt == Strip(w.text)
        box == WordBox(w)
        key == WordKey(w)
    IN  IF Skipped(w) THEN SkipWord(g)
        ELSE IF g.prev_key = None \/ SameKey(key, g.prev_key)
        THEN [g EXCEPT
                !.i = @ + 1,
                !.current_line = Append(@, <<txt, box[1]>>),
                !.current_src = @ \cup {g.i},
                !.current_bbox =
                    IF @ = None THEN box
                    ELSE <<Min(@[1], box[1]), Min(@[2], box[2]),
                           Max(@[3], box[3]), Max(@[4], box[4])>>,
                !.prev_key = key]
        ELSE [g EXCEPT
                !.i = @ + 1,
                !.lines = IF g.current_line # <<>> THEN CloseLine(g) ELSE @,
                !.line_no = IF g.current_line # <<>> THEN NextLineNo(@) ELSE @,
                !.current_line = <<<<txt, box[1]>>>>,
                !.current_src = {g.i},
                !.current_bbox = box,
                !.prev_key = key]

\* after the loop: the last group is closed, lines is returned
ReturnLines(g) ==
    [g EXCEPT !.pc = "done",
              !.lines = IF g.current_line # <<>> THEN CloseLine(g) ELSE @]

\* the frame at the head of the loop
GrouperStart(words, page_num) ==
    [pc |-> "loop", words |-> words, page_num |-> page_num, i |-> 0,
     lines |-> <<>>, current_line |-> <<>>, current_src |-> {},
     current_bbox |-> None, prev_key |-> None, line_no |-> 0]

RECURSIVE RunGrouper(_)
RunGrouper(g) == IF g.i < Len(g.words) THEN RunGrouper(LoopBody(g)) ELSE ReturnLines(g)

\* the value the call returns, without the history field
GroupWordsIntoLines(words, page_num) ==
    LET ls == RunGrouper(GrouperStart(words, page_num)).lines
    IN  [k \in 1..Len(ls) |->
            [page |-> ls[k].page, line_no |-> ls[k].line_no,
             text |-> ls[k].text, bbox |-> ls[k].bbox]]

GroupWord ==
    /\ grouper.pc = "loop"
    /\ grouper.i < Len(grouper.words)
    /\ grouper' = LoopBody(grouper)
    /\ UNCHANGED <<cfg, tsv_files, pc, idx, i, lines, avg_line_height,
                   prev_ends_with_hyphen, current_text, current_style,
                   in_definition, def_text, doc, saved, current_src, def_src,
                   caller, classifier, pipeline, worker>>

GroupReturn ==
    /\ grouper.pc = "loop"
    /\ grouper.i >= Len(grouper.words)
    /\ grouper' = ReturnLines(grouper)
    /\ UNCHANGED <<cfg, tsv_files, pc, idx, i, lines, avg_line_height,
                   prev_ends_with_hyphen, current_text, current_style,
                   in_definition, def_text, doc, saved, current_src, def_src,
                   caller, classifier, pipeline, worker>>

NextWords == GroupWord \/ GroupReturn

\* word records: words of three keys, two of them on one line_num, and the
\* records the loop skips
wA == <<"a">>
wB == <<" ", "b">>

Word(text, left, key, width, height, bad) ==
    [text |-> text, left |-> left, top |-> left \div 10, width |-> width,
     height |-> height, block_num |-> key[1], par_num |-> key[2],
     line_num |-> key[3], bad |-> bad]

WordKinds ==
    { Word(wA, 10, <<1, 1, 1>>, 15, 8, "none"), Word(wB, 30, <<1, 1, 1>>, 15, 8, "none"),
      Word(wA, 30, <<1, 1, 2>>, 15, 8, "none"), Word(wB, 10, <<1, 1, 2>>, 15, 8, "none"),
      Word(wA, 10, <<2, 1, 1>>, 15, 8, "none") }
    \cup { Word(<<>>, 10, <<1, 1, 2>>, 15, 8, "none"),
           Word(<<" ">>, 10, <<1, 1, 2>>, 15, 8, "none"),
           Word(wA, 10, <<1, 1, 2>>, 0, 8, "none"),
           Word(wA, 10, <<1, 1, 2>>, 15, -1, "none"),
           Word(wA, 10, <<1, 1, 2>>, 15, 8, "text"),
           Word(wA, 10, <<1, 1, 2>>, 15, 8, "left"),
           Word(wA, 10, <<1, 1, 2>>, 15, 8, "line_num") }

\* the assembler is constructed and not called
InitWords ==
    /\ AssemblerInit(DefaultConfig, <<>>)
    /\ classifier = IdleFrame
    /\ pipeline = IdleFrame
    /\ worker = IdleFrame
    /\ \E n \in 0..MaxWords : \E words \in [1..n -> WordKinds] :
           grouper = GrouperStart(words, 1)

SpecWords == InitWords /\ [][NextWords]_vars

(***************************************************************************)
(* LineClassifier._classify_line(text, bbox, image_width, centered).  The  *)
(* float caps_ratio is kept as the fraction <<numerator, denominator>>;    *)
(* the division caps_count / len(letters) is correctly rounded, so it      *)
(* compares with the float of the fraction as the fractions compare.  The  *)
(* argument centered is [bool |-> TRUE, value |-> b] for the Python bool b *)
(* and [bool |-> FALSE] for a value of any other type.                     *)
(***************************************************************************)
DefaultClassification == [caps_ratio |-> <<7, 10>>, center_tolerance_px |-> 40]

\* c.isalpha(), c.isupper() of one character
IsAlphaChar(ch) == ch \in LowerChars \cup UpperChars
IsUpperChar(ch) == ch \in UpperChars

Abs(n) == IF n >= 0 THEN n ELSE 0 - n

\* abs((bbox[0] + bbox[2]) / 2 - image_width / 2) <= center_tolerance_px
NearCenter(c, bbox, image_width) ==
    Abs(bbox[1] + bbox[3] - image_width) <= 2 * c.center_tolerance_px

RatioExceeded(caps_count, n_letters, ratio) == caps_count * ratio[2] > ratio[1] * n_letters

\* caps_count / len(letters) >= self.caps_ratio
RatioReached(caps_count, n_letters, ratio) == caps_count * ratio[2] >= ratio[1] * n_letters

ClassifyLine(c, text, bbox, image_width, centered) ==
    LET letters    == SelectSeq(text, IsAlphaChar)
        caps_count == Len(SelectSeq(letters, IsUpperChar))
        centered2  == IF ~centered.bool THEN NearCenter(c, bbox, image_width)
                      ELSE centered.value
    IN  IF Strip(text) = <<>> THEN "PARAGRAPH"
        ELSE IF letters = <<>> THEN "PARAGRAPH"
        ELSE IF RatioReached(caps_count, Len(letters), c.caps_ratio) \/ centered2
             THEN "TITLE"
             ELSE "PARAGRAPH"

Classify ==
    /\ classifier.pc = "call"
    /\ classifier' =
           [classifier EXCEPT
              !.pc = "done",
              !.cls = ClassifyLine(classifier.config, classifier.text, classifier.bbox,
                                   classifier.image_width, classifier.centered)]
    /\ UNCHANGED <<cfg, tsv_files, pc, idx, i, lines, avg_line_height,
                   prev_ends_with_hyphen, current_text, current_style,
                   in_definition, def_text, doc, saved, current_src, def_src,
                   caller, grouper, pipeline, worker>>

NextClassify == Classify

\* texts: a run of "A" and "b", alone or after "1 "; a blank text
ClassifyTexts ==
    {<<" ">>} \cup
    UNION {{prefix \o t : t \in [1..n -> {"A", "b"}], prefix \in {<<>>, <<"1", " ">>}} :
              n \in 0..MaxLetters}

\* boxes on an image 600 wide: centre on the image centre, 40 off, 40.5 off
ClassifyBoxes == {<<100, 0, 500, 10>>, <<140, 0, 540, 10>>, <<141, 0, 540, 10>>}

CenteredValues == {[bool |-> TRUE, value |-> TRUE], [bool |-> TRUE, value |-> FALSE],
                   [bool |-> FALSE]}

\* the assembler is constructed and not called
InitClassify ==
    /\ AssemblerInit(DefaultConfig, <<>>)
    /\ grouper = IdleFrame
    /\ pipeline = IdleFrame
    /\ worker = IdleFrame
    /\ \E text \in ClassifyTexts, bbox \in ClassifyBoxes, centered \in CenteredValues :
           classifier = [pc |-> "call", config |-> DefaultClassification,
                         text |-> text, bbox |-> bbox, image_width |-> 600,
                         centered |-> centered, cls |-> "none"]

SpecClassify == InitClassify /\ [][NextClassify]_vars

(***************************************************************************)
(* LineClassifier.classify_lines(tsv_file, output_jsonl, image_width).  A  *)
(* file is [columns, rows]: the names of its header and its rows; the cell *)
(* of a column the header lacks is never read.  A bbox cell is the list    *)
(* its text evaluates to, or Malformed when eval of its text raises.  A    *)
(* centered cell is [bool |-> TRUE, value |-> b] in a column pandas reads  *)
(* as booleans (iterrows hands the values over as Python bool) and         *)
(* [bool |-> FALSE] in a column of any other text.                         *)
(***************************************************************************)
MaxWordsCls == 2
MaxRowsCls == 2

TsvColumns == {"page", "line_no", "text", "bbox"}

AnnotatedColumns == TsvColumns \cup {"centered", "ends_with_hyphen"}

\* if ln.get("text", "").strip()
HasText(ln) == Strip(ln.text) # <<>>

\* OCREngine._write_lines_tsv(lines, path): the columns page, line_no, text
\* and bbox of the lines that have text; str(bbox) is the text of a list of
\* four integers, which eval reads back as that list
WriteLinesTsv(ls) == [columns |-> TsvColumns, rows |-> SelectSeq(ls, HasText)]

\* the body of the try raises: row[...] of a column the file lacks, or eval
RowRaises(columns, row) ==
    \/ ~({"text", "bbox", "centered", "ends_with_hyphen", "page", "line_no"} \subseteq columns)
    \/ row.bbox = Malformed

\* LineAnnotation(page=, line_no=, text=, cls=, bbox=, centered=,
\* ends_with_hyphen=): the model class declares page, line_no, text and bbox,
\* and a keyword it does not declare is ignored; src is a history field, the
\* index of the row
LineAnnotation(page, line_no, text, cls, bbox, centered, ends_with_hyphen, src) ==
    [page |-> page, line_no |-> line_no, text |-> text, bbox |-> bbox, src |-> src]

\* the frame at the head of the row loop, after pd.read_csv
ClassifyLinesStart(file, image_width) ==
    [pc |-> "rows", config |-> DefaultClassification, image_width |-> image_width,
     columns |-> file.columns, df |-> ReadCsv(file.rows), k |-> 0,
     lines |-> <<>>, jsonl |-> None, result |-> None]

\* one pass of "for _, row in df.iterrows()": the annotation is appended, or
\* the except branch logs a warning and goes on to the next row
ClassifyRow ==
    /\ classifier.pc = "rows"
    /\ classifier.k < Len(classifier.df)
    /\ LET row  == classifier.df[classifier.k + 1]
           text == Str(row.text)
           cls  == ClassifyLine(classifier.config, text, row.bbox,
                                classifier.image_width, row.centered)
       IN  classifier' =
               [classifier EXCEPT
                  !.k = @ + 1,
                  !.lines = IF RowRaises(classifier.columns, row) THEN @
                            ELSE Append(@, LineAnnotation(row.page, row.line_no, text, cls,
                                                          row.bbox, row.centered,
                                                          row.ends_with_hyphen,
                                                          classifier.k))]
    /\ UNCHANGED <<cfg, tsv_files, pc, idx, i, lines, avg_line_height,
                   prev_ends_with_hyphen, current_text, current_style,
                   in_definition, def_text, doc, saved, current_src, def_src,
                   caller, grouper, pipeline, worker>>

\* after the loop: the JSONL file is opened for writing, then one record per
\* annotation is built from line.page, line.line_no, line.text, line.cls, ...;
\* line.cls of the first annotation raises AttributeError, which nothing
\* catches.  Without annotations the empty file is closed and [] returned.
WriteJsonl ==
    /\ classifier.pc = "rows"
    /\ classifier.k >= Len(classifier.df)
    /\ classifier' =
           IF classifier.lines = <<>>
           THEN [classifier EXCEPT !.pc = "done", !.jsonl = <<>>, !.result = classifier.lines]
           ELSE [classifier EXCEPT !.pc = "raised", !.jsonl = <<>>]
    /\ UNCHANGED <<cfg, tsv_files, pc, idx, i, lines, avg_line_height,
                   prev_ends_with_hyphen, current_text, current_style,
                   in_definition, def_text, doc, saved, current_src, def_src,
                   caller, grouper, pipeline, worker>>

NextClassifyLines == ClassifyRow \/ WriteJsonl

\* the files the OCR engine writes for the lines of at most MaxWordsCls words
GroupedFiles ==
    UNION {{WriteLinesTsv(GroupWordsIntoLines(words, 1)) : words \in [1..n -> WordKinds]} :
              n \in 0..MaxWordsCls}

\* rows of a file that has the columns centered and ends_with_hyphen
AnnotatedKinds ==
    [text : {<<"A", "B">>, <<"a", "b">>},
     bbox : {<<100, 0, 500, 10>>, <<141, 0, 540, 10>>, Malformed},
     centered : CenteredValues]

AnnotatedFiles ==
    UNION {{[columns |-> AnnotatedColumns,
             rows |-> [k \in 1..n |->
                          [page |-> 1, line_no |-> k - 1, text |-> ks[k].text,
                           bbox |-> ks[k].bbox, centered |-> ks[k].centered,
                           ends_with_hyphen |-> FALSE]]] :
               ks \in [1..n -> AnnotatedKinds]} : n \in 0..MaxRowsCls}

\* the assembler is constructed and not called
InitClassifyLines ==
    /\ AssemblerInit(DefaultConfig, <<>>)
    /\ grouper = IdleFrame
    /\ pipeline = IdleFrame
    /\ worker = IdleFrame
    /\ \E file \in GroupedFiles \cup AnnotatedFiles :
           classifier = ClassifyLinesStart(file, 600)

SpecClassifyLines == InitClassifyLines /\ [][NextClassifyLines]_vars

(***************************************************************************)
(* run_pipeline (ocrtoodt/i0_core/pipeline_orchestrator.py) and its page   *)
(* tasks, process_single_image.  An image is [digits, rest, lines]: the    *)
(* run of digits its base name starts with, the rest of the name, and the  *)
(* lines the OCR engine groups from it (kinds, laid out top to bottom).    *)
(* The page tasks run in a pool: their steps interleave in any order; the  *)
(* sequential loop is one of these orders.                                 *)
(***************************************************************************)
MaxImages == 3

Image(digits, rest, ls) == [digits |-> digits, rest |-> rest, lines |-> ls]

\* 1.jpg, 1.png, 2.jpg (a blank page), x.jpg, 9999.jpg, 10000.jpg
ImageFiles ==
    { Image(<<1>>, ".jpg", <<Kind(tPle, xIndent, 10, 40)>>),
      Image(<<1>>, ".png", <<Kind(tHead11, xOther, 10, 40)>>),
      Image(<<2>>, ".jpg", <<>>),
      Image(<<>>, "x.jpg", <<Kind(tNote, xCont, 10, 40)>>),
      Image(<<9, 9, 9, 9>>, ".jpg", <<Kind(tExam, xIndent, 10, 40), Kind(tPle, xCont, 10, 40)>>),
      Image(<<1, 0, 0, 0, 0>>, ".jpg", <<Kind(tPle, xDef, 10, 40)>>) }

RECURSIVE ParseInt(_)
\* int() of a run of digits
ParseInt(digits) ==
    IF digits = <<>> THEN 0
    ELSE 10 * ParseInt(SubSeq(digits, 1, Len(digits) - 1)) + digits[Len(digits)]

\* natural_key(filename): the number of the leading digits, or float("inf")
NaturalKey(image) ==
    IF image.digits = <<>> THEN [inf |-> TRUE, n |-> 0]
    ELSE [inf |-> FALSE, n |-> ParseInt(image.digits)]

\* a <= b for two keys
KeyLeq(a, b) == b.inf \/ (~a.inf /\ a.n <= b.n)

\* the orders sorted(set(input_files), key=natural_key) may give: ascending
\* keys; images of equal key come in the order the set happens to yield
SortedInputs(images) ==
    {order \in [1..Cardinality(images) -> images] :
        /\ \A a, b \in 1..Cardinality(images) : a # b => order[a] # order[b]
        /\ \A a, b \in 1..Cardinality(images) :
               a < b => KeyLeq(NaturalKey(order[a]), NaturalKey(order[b]))}

HasNumber(image) == ~NaturalKey(image).inf

\* params_list: (input_image, config, page_num) of the images that have a number
ParamsList(input_files) ==
    LET kept == SelectSeq(input_files, HasNumber)
    IN  [k \in 1..Len(kept) |-> [input_image |-> kept[k], page_num |-> NaturalKey(kept[k]).n]]

\* the files of cache/ocr before the run: none
NoFiles(images) ==
    [p \in {NaturalKey(im).n : im \in {m \in images : HasNumber(m)}} |->
        [exists |-> FALSE, rows |-> <<>>, writers |-> {}]]

\* int(os.path.basename(x).split('_')[1].split('.')[0]) of page_{n:04d}.tsv
PageKey(page_num) == ParseInt(Pad4(page_num))

RECURSIVE InsertByPage(_, _)
InsertByPage(n, s) ==
    IF s = <<>> THEN <<n>>
    ELSE IF PageKey(n) < PageKey(Head(s)) THEN <<n>> \o s
    ELSE <<Head(s)>> \o InsertByPage(n, Tail(s))

RECURSIVE SortByPage(_)
\* tsv_files.sort(key=...), stable
SortByPage(ns) ==
    IF ns = <<>> THEN <<>>
    ELSE InsertByPage(Last(ns), SortByPage(SubSeq(ns, 1, Len(ns) - 1)))

\* the frame at the glob of the input directory
PipelineStart(images) ==
    [pc |-> "find", images |-> images, input_files |-> <<>>, params_list |-> <<>>,
     todo |-> {}, fs |-> NoFiles(images), tsv_files |-> <<>>]

\* the input files are found and sorted, or FileNotFoundError when there is
\* none; params_list is made and the pool started
FindImages ==
    /\ pipeline.pc = "find"
    /\ IF pipeline.images = {}
       THEN pipeline' = [pipeline EXCEPT !.pc = "failed"]
       ELSE \E order \in SortedInputs(pipeline.images) :
                pipeline' = [pipeline EXCEPT
                               !.pc = "tasks",
                               !.input_files = order,
                               !.params_list = ParamsList(order),
                               !.todo = 1..Len(ParamsList(order))]
    /\ UNCHANGED <<cfg, tsv_files, pc, idx, i, lines, avg_line_height,
                   prev_ends_with_hyphen, current_text, current_style,
                   in_definition, def_text, doc, saved, current_src, def_src,
                   caller, grouper, classifier, worker>>

\* process_single_image(params) runs to its end: the lines of the image are
\* written to page_{page_num:04d}.tsv, over whatever the file holds
TaskWrite(t) ==
    /\ pipeline.pc = "tasks"
    /\ t \in pipeline.todo
    /\ LET prm == pipeline.params_list[t]
       IN  pipeline' =
               [pipeline EXCEPT
                  !.todo = @ \ {t},
                  !.fs[prm.page_num] =
                      [exists |-> TRUE,
                       rows |-> WriteLinesTsv(Layout(prm.input_image.lines, 0)).rows,
                       writers |-> @.writers \cup {prm.input_image}]]
    /\ UNCHANGED <<cfg, tsv_files, pc, idx, i, lines, avg_line_height,
                   prev_ends_with_hyphen, current_text, current_style,
                   in_definition, def_text, doc, saved, current_src, def_src,
                   caller, grouper, classifier, worker>>

\* process_single_image(params) raises (preprocessing, Tesseract, the file
\* system): neither the loop nor pool.map catches it, run_pipeline ends with
\* the exception
TaskRaise(t) ==
    /\ pipeline.pc = "tasks"
    /\ t \in pipeline.todo
    /\ pipeline' = [pipeline EXCEPT !.pc = "failed", !.todo = @ \ {t}]
    /\ UNCHANGED <<cfg, tsv_files, pc, idx, i, lines, avg_line_height,
                   prev_ends_with_hyphen, current_text, current_style,
                   in_definition, def_text, doc, saved, current_src, def_src,
                   caller, grouper, classifier, worker>>

\* every task has returned its path: the paths are sorted by page number,
\* the assembler is constructed and assemble_odt called on them
Assemble ==
    /\ pipeline.pc = "tasks"
    /\ pipeline.todo = {}
    /\ pc = "idle"
    /\ LET paths == SortByPage([k \in 1..Len(pipeline.params_list) |->
                                   pipeline.params_list[k].page_num])
           files == [k \in 1..Len(paths) |->
                        [page_num |-> paths[k], rows |-> pipeline.fs[paths[k]].rows]]
       IN  /\ pipeline' = [pipeline EXCEPT !.pc = "assemble", !.tsv_files = paths]
           /\ tsv_files' = files
           /\ caller' = [tsv_files |-> files, calls |-> 1, first_doc |-> <<>>]
    /\ pc' = "begin"
    /\ UNCHANGED <<cfg, idx, i, lines, avg_line_height, prev_ends_with_hyphen,
                   current_text, current_style, in_definition, def_text, doc,
                   saved, current_src, def_src, grouper, classifier, worker>>

\* assemble_odt has returned the path of the document
Finish ==
    /\ pipeline.pc = "assemble"
    /\ pc = "done"
    /\ pipeline' = [pipeline EXCEPT !.pc = "done"]
    /\ UNCHANGED <<cfg, tsv_files, pc, idx, i, lines, avg_line_height,
                   prev_ends_with_hyphen, current_text, current_style,
                   in_definition, def_text, doc, saved, current_src, def_src,
                   caller, grouper, classifier, worker>>

\* the files of a pipeline run have no row without text (WriteLinesTsv), so
\* the skip of an empty row has no case in assemble_odt here
NextPipeline ==
    \/ FindImages
    \/ \E t \in 1..Len(pipeline.params_list) : TaskWrite(t)
    \/ \E t \in 1..Len(pipeline.params_list) : TaskRaise(t)
    \/ Assemble
    \/ Begin
    \/ StartPage
    \/ DefinitionLine
    \/ ContinueParagraph
    \/ NewParagraph
    \/ FallbackLine
    \/ EndPage
    \/ Save
    \/ Finish

\* run_pipeline is called on an input directory of at most MaxImages images;
\* no assembler exists yet
InitPipeline ==
    /\ cfg = DefaultConfig
    /\ tsv_files = <<>>
    /\ pc = "idle"
    /\ idx = 0
    /\ i = 0
    /\ lines = <<>>
    /\ avg_line_height = <<1, 1>>
    /\ prev_ends_with_hyphen = FALSE
    /\ current_text = <<>>
    /\ current_style = "Paragraph"
    /\ in_definition = FALSE
    /\ def_text = <<>>
    /\ doc = <<>>
    /\ saved = FALSE
    /\ current_src = {}
    /\ def_src = {}
    /\ caller = [tsv_files |-> <<>>, calls |-> 0, first_doc |-> <<>>]
    /\ grouper = IdleFrame
    /\ classifier = IdleFrame
    /\ worker = IdleFrame
    /\ \E images \in SUBSET ImageFiles :
           /\ Cardinality(images) <= MaxImages
           /\ pipeline = PipelineStart(images)

SpecPipeline == InitPipeline /\ [][NextPipeline]_vars

(***************************************************************************)
(* OCRWorker (gui/worker.py), started by MainWindow.start_ocr and          *)
(* cancelled by MainWindow.stop_ocr (gui/main.py).  Three parties take     *)
(* steps: the run thread (OCRWorker.run), the subprocess it launches, and  *)
(* the GUI thread inside cancel().  The terminal signals sig_finished,     *)
(* sig_error and sig_cancelled are recorded in the order of emission.      *)
(***************************************************************************)
MaxLog == 2        \* output lines of the subprocess
MaxCancels == 1    \* clicks on Stop

\* returncode of a subprocess ended by SIGTERM
Terminated == 0 - 15

\* the worker constructed by start_ocr, not started yet; env is what the run
\* will meet: whether cli_entrypoint.py is there, whether the preparation or
\* Popen raises, how many lines the subprocess prints, its own exit code
WorkerStart(env) ==
    [pc |-> "new", running |-> FALSE, cancelled |-> FALSE, proc |-> "None",
     child |-> "none", returncode |-> 0, toprint |-> env.lines, pipe |-> 0,
     cancel |-> "idle", cancels |-> 0, signals |-> <<>>, env |-> env]

notWorker ==
    <<cfg, tsv_files, pc, idx, i, lines, avg_line_height, prev_ends_with_hyphen,
      current_text, current_style, in_definition, def_text, doc, saved,
      current_src, def_src, caller, grouper, classifier, pipeline>>

Emit(w, sig) == [w EXCEPT !.signals = Append(@, sig)]

\* if self.proc and self.proc.poll() is None: self.proc.terminate()
Terminate(w) ==
    IF w.proc = "Popen" /\ w.child = "running"
    THEN [w EXCEPT !.child = "exited", !.returncode = Terminated]
    ELSE w

\* start_ocr: self.worker.start()
StartOcr ==
    /\ worker.pc = "new"
    /\ worker' = [worker EXCEPT !.pc = "launch", !.running = TRUE]
    /\ UNCHANGED notWorker

\* run() up to Popen: an exception and a missing script end in sig_error
RunLaunch ==
    /\ worker.pc = "launch"
    /\ worker' =
          IF worker.env.raises \/ ~worker.env.script
          THEN [Emit(worker, "sig_error") EXCEPT !.pc = "finally"]
          ELSE [worker EXCEPT !.pc = "loop", !.proc = "Popen", !.child = "running"]
    /\ UNCHANGED notWorker

\* the subprocess writes a line to its stdout
ChildPrint ==
    /\ worker.child = "running"
    /\ worker.toprint > 0
    /\ worker' = [worker EXCEPT !.toprint = @ - 1, !.pipe = @ + 1]
    /\ UNCHANGED notWorker

\* the subprocess exits by itself
ChildExit ==
    /\ worker.child = "running"
    /\ worker.toprint = 0
    /\ worker' = [worker EXCEPT !.child = "exited", !.returncode = worker.env.code]
    /\ UNCHANGED notWorker

\* one pass of "for line in self.proc.stdout"
RunReadLine ==
    /\ worker.pc = "loop"
    /\ worker.pipe > 0
    /\ worker' =
          IF worker.cancelled
          THEN [Emit(Terminate(worker), "sig_cancelled") EXCEPT
                   !.pipe = @ - 1, !.pc = "finally"]
          ELSE [worker EXCEPT !.pipe = @ - 1]
    /\ UNCHANGED notWorker

\* the end of the output: self.proc.wait()
RunEndOfOutput ==
    /\ worker.pc = "loop"
    /\ worker.pipe = 0
    /\ worker.child = "exited"
    /\ worker' = [worker EXCEPT !.pc = "code"]
    /\ UNCHANGED notWorker

\* the branches on self.proc.returncode
RunExitCode ==
    /\ worker.pc = "code"
    /\ worker' =
          IF worker.returncode = Terminated
          THEN [Emit(worker, "sig_cancelled") EXCEPT !.pc = "finally"]
          ELSE IF worker.returncode = 0
          THEN [worker EXCEPT !.pc = "finalize"]
          ELSE [Emit(worker, "sig_error") EXCEPT !.pc = "finally"]
    /\ UNCHANGED notWorker

\* the progress animation with its sleeps, then sig_finished.emit("success")
RunFinalize ==
    /\ worker.pc = "finalize"
    /\ worker' = [Emit(worker, "sig_finished") EXCEPT !.pc = "finally"]
    /\ UNCHANGED notWorker

\* finally: self.proc = None; run returns and the thread is finished
RunFinally ==
    /\ worker.pc = "finally"
    /\ worker' = [worker EXCEPT !.pc = "done", !.proc = "None", !.running = FALSE]
    /\ UNCHANGED notWorker

\* stop_ocr: if self.worker and self.worker.isRunning(): self.worker.cancel()
StopOcr ==
    /\ worker.pc # "new"
    /\ worker.cancel = "idle"
    /\ worker.cancels < MaxCancels
    /\ worker' = [worker EXCEPT !.cancels = @ + 1,
                                !.cancel = IF worker.running THEN "check" ELSE "idle"]
    /\ UNCHANGED notWorker

\* cancel(): if not self.isRunning(): return
CancelCheck ==
    /\ worker.cancel = "check"
    /\ worker' = [worker EXCEPT !.cancel = IF worker.running THEN "set" ELSE "idle"]
    /\ UNCHANGED notWorker

\* self._cancelled.set()
CancelSet ==
    /\ worker.cancel = "set"
    /\ worker' = [worker EXCEPT !.cancelled = TRUE, !.cancel = "terminate"]
    /\ UNCHANGED notWorker

\* the try block of cancel()
CancelTerminate ==
    /\ worker.cancel = "terminate"
    /\ worker' = [Terminate(worker) EXCEPT !.cancel = "emit"]
    /\ UNCHANGED notWorker

\* self.sig_cancelled.emit()
CancelEmit ==
    /\ worker.cancel = "emit"
    /\ worker' = [Emit(worker, "sig_cancelled") EXCEPT !.cancel = "idle"]
    /\ UNCHANGED notWorker

NextWorker ==
    \/ StartOcr
    \/ RunLaunch
    \/ ChildPrint
    \/ ChildExit
    \/ RunReadLine
    \/ RunEndOfOutput
    \/ RunExitCode
    \/ RunFinalize
    \/ RunFinally
    \/ StopOcr
    \/ CancelCheck
    \/ CancelSet
    \/ CancelTerminate
    \/ CancelEmit

InitWorker ==
    /\ cfg = DefaultConfig
    /\ tsv_files = <<>>
    /\ pc = "idle"
    /\ idx = 0
    /\ i = 0
    /\ lines = <<>>
    /\ avg_line_height = <<1, 1>>
    /\ prev_ends_with_hyphen = FALSE
    /\ current_text = <<>>
    /\ current_style = "Paragraph"
    /\ in_definition = FALSE
    /\ def_text = <<>>
    /\ doc = <<>>
    /\ saved = FALSE
    /\ current_src = {}
    /\ def_src = {}
    /\ caller = [tsv_files |-> <<>>, calls |-> 0, first_doc |-> <<>>]
    /\ grouper = IdleFrame
    /\ classifier = IdleFrame
    /\ pipeline = IdleFrame
    /\ \E script \in BOOLEAN, raises \in BOOLEAN, n \in 0..MaxLog, code \in {0, 1} :
           worker = WorkerStart([script |-> script, raises |-> raises,
                                 lines |-> n, code |-> code])

SpecWorker == InitWorker /\ [][NextWorker]_vars

(***************************************************************************)
(* Vocabulary of the properties.                                           *)
(***************************************************************************)
\* the input row <<file index, row index>> of the sorted file list
RowAt(r) == tsv_files[r[1] + 1].rows[r[2] + 1]

RowLess(a, b) == a[1] < b[1] \/ (a[1] = b[1] /\ a[2] < b[2])

\* the row handled by the step leaving this state, and its stripped text
ThisRow == <<idx, i>>
ThisLine == lines[i + 1]
ThisText == TextVal(ThisLine)

\* this state is about to handle a non-empty row
AtText == pc = "line" /\ i < Len(lines) /\ ThisText # <<>>

\* the row about to be handled would enter the definition branch
DefinitionCase == IsDefLine(cfg, ThisLine.bbox) \/ in_definition

IsPrefix(s, t) == Len(s) <= Len(t) /\ SubSeq(t, 1, Len(s)) = s

\* the elements a step appends to the document
Added == SubSeq(doc', Len(doc) + 1, Len(doc'))

Contains(s, sub) ==
    \E k \in 0..(Len(s) - Len(sub)) : SubSeq(s, k + 1, k + Len(sub)) = sub

FlowStyles == {"Paragraph", "Heading", "Footnote"}

(***************************************************************************)
(* C1: in every state of the page loop an open Paragraph and an open       *)
(* Definition do not coexist: in_definition is never true while the        *)
(* paragraph buffer current_text is non-empty.                             *)
(***************************************************************************)
C1_MutuallyExclusive == ~(in_definition /\ current_text # <<>>)

\* a Definition is open right after an open Paragraph had to be emitted for it
C1_Witness ==
    /\ in_definition
    /\ pc = "line"
    /\ doc # <<>>
    /\ Last(doc).style \in FlowStyles
    /\ Last(doc).src = {<<idx, i - 2>>}

(***************************************************************************)
(* C2: blocks are emitted in document order: of two blocks, every row of   *)
(* the earlier block precedes every row of the later one (file order,      *)
(* then row order), and a step only appends to the document.               *)
(***************************************************************************)
C2_OrderedBlocks ==
    \A p, q \in 1..Len(doc) :
        p < q => \A a \in doc[p].src, b \in doc[q].src : RowLess(a, b)

C3_FootnoteStep ==
    (AtText /\ IsFootnote(ThisText) /\ ~DefinitionCase) =>
        /\ Len(doc') >= 2
        /\ doc'[Len(doc')] = P("Footnote", ThisText, {ThisRow})
        /\ doc'[Len(doc') - 1] = DividerP
        /\ ThisRow \notin current_src'

C3_FootnoteStandalone == [][C3_FootnoteStep]_vars

(***************************************************************************)
(* C4: a row whose bbox is outside the definition column window, like the  *)
(* x1=700 row of the defaults (outside the window also when it is widened  *)
(* by the look-ahead tolerance), never opens a Definition and its text is  *)
(* never appended to one, after any sequence of preceding rows.            *)
(***************************************************************************)
OutsideWindow(r) == ~NextIsDef(cfg, RowAt(r).bbox)

C4_OutsideNeverInDefinition ==
    /\ \A r \in def_src : ~OutsideWindow(r)
    /\ \A k \in 1..Len(doc) :
          doc[k].style = "Definition" => \A r \in doc[k].src : ~OutsideWindow(r)

(***************************************************************************)
(* C5: a non-empty row whose (x1, x2) is in the definition window always   *)
(* has its text in a Definition: once handled it is in the open Definition *)
(* or in an emitted Definition block and in no other block, also when the  *)
(* text starts with "*" or is upper case; the step that handles it emits   *)
(* no Divider, and after the run the row is in a Definition block.         *)
(***************************************************************************)
\* the non-empty rows handled so far
Handled ==
    {r \in UNION {{<<f - 1, k - 1>> : k \in 1..Len(tsv_files[f].rows)} : f \in 1..Len(tsv_files)} :
        /\ pc # "begin"
        /\ Strip(RowAt(r).text) # <<>>
        /\ \/ r[1] < idx
           \/ r[1] = idx /\ pc = "line" /\ r[2] < i}

\* the text of a row without the hyphen a join takes away
Kept(r) == RStripHyphen(Strip(RowAt(r).text))

C5_WindowRowsPlaced ==
    \A r \in Handled :
        IsDefLine(cfg, RowAt(r).bbox) =>
            /\ r \notin current_src
            /\ \A k \in 1..Len(doc) : r \in doc[k].src => doc[k].style = "Definition"
            /\ \/ in_definition /\ r \in def_src /\ Contains(Join(<<" ">>, def_text), Kept(r))
               \/ \E k \in 1..Len(doc) : r \in doc[k].src /\ Contains(doc[k].text, Kept(r))

C5_WindowStep ==
    (AtText /\ IsDefLine(cfg, ThisLine.bbox)) =>
        \A k \in 1..Len(Added) : Added[k].style \in {NoStyle, "Definition", current_style}
                                    /\ (Added[k].style # "Definition" => ThisRow \notin Added[k].src)

C5_DefinitionFirst == []C5_WindowRowsPlaced /\ [][C5_WindowStep]_vars

\* a "*" row and an upper-case row of the window are out in one Definition
C5_Witness ==
    /\ pc = "done"
    /\ \E k \in 1..Len(doc) :
          /\ doc[k].style = "Definition"
          /\ \E r \in doc[k].src : IsFootnote(Strip(RowAt(r).text))
          /\ \E r \in doc[k].src : IsUpper(Strip(RowAt(r).text))

(***************************************************************************)
(* Merges.  A step merges the row into the open Paragraph when the buffer  *)
(* was non-empty and holds, after the step, its old rows and this row; it  *)
(* merges the row into the open Definition when a Definition was open.     *)
(***************************************************************************)
ParagraphMerge ==
    AtText /\ current_text # <<>> /\ current_src' = current_src \cup {ThisRow}

DefinitionMerge == AtText /\ in_definition /\ def_text # <<>>

\* the buffered text before the step and the text the merge results in
Buffered == IF in_definition THEN Join(<<" ">>, def_text) ELSE Join(<<>>, current_text)

Merged ==
    IF ~in_definition THEN Join(<<>>, current_text')
    ELSE IF in_definition' THEN Join(<<" ">>, def_text')
    ELSE Added[1].text

EndsSingleHyphen(b) ==
    /\ Len(b) >= 1
    /\ b[Len(b)] = "-"
    /\ (Len(b) = 1 \/ b[Len(b) - 1] # "-")

(***************************************************************************)
(* C6: whenever a row is merged into the open Paragraph or the open        *)
(* Definition, the result is the buffered text without its trailing "-"    *)
(* directly followed by the new text when the buffered text ended with a   *)
(* single "-" ("exam-" + "ple" = "example"), and otherwise the buffered    *)
(* text, exactly one space and the new text.                               *)
(***************************************************************************)
C6_MergeStep ==
    (ParagraphMerge \/ DefinitionMerge) =>
        Merged = IF EndsSingleHyphen(Buffered)
                 THEN SubSeq(Buffered, 1, Len(Buffered) - 1) \o ThisText
                 ELSE Buffered \o <<" ">> \o ThisText

C6_HyphenOrSpaceJoin == [][C6_MergeStep]_vars

\* "exam-" and "ple" are in the paragraph buffer as "example"
C6_Witness ==
    /\ pc = "line"
    /\ Cardinality(current_src) = 2
    /\ current_text # <<>>
    /\ Contains(Last(current_text), <<"e", "x", "a", "m", "p", "l", "e">>)

(***************************************************************************)
(* C7: a hyphen join (the merge of a row while prev_ends_with_hyphen is    *)
(* set) removes exactly one character, a "-", from the end of the buffered *)
(* text; and buffered text that ends in "--" is never hyphen-joined: the   *)
(* flag is not set, the next merged row is joined with a space and both    *)
(* dashes stay.                                                            *)
(***************************************************************************)
C7_MergeStep ==
    (ParagraphMerge \/ DefinitionMerge) =>
        /\ prev_ends_with_hyphen =>
              /\ Buffered[Len(Buffered)] = "-"
              /\ Len(Merged) = Len(Buffered) - 1 + Len(ThisText)
              /\ IsPrefix(SubSeq(Buffered, 1, Len(Buffered) - 1), Merged)
        /\ EndsWith(Buffered, <<"-", "-">>) =>
              /\ ~prev_ends_with_hyphen
              /\ IsPrefix(Buffered \o <<" ">>, Merged)

C7_SingleHyphenOnly == [][C7_MergeStep]_vars

\* a row was merged after text ending in "--": dashes, a space, the row
C7_Witness ==
    /\ pc = "line"
    /\ Cardinality(current_src) = 2
    /\ current_text # <<>>
    /\ Contains(Last(current_text), <<"-", "-", " ">>)

(***************************************************************************)
(* C8: with a Paragraph open and no Definition open, a non-empty row that  *)
(* is not a definition-window row and has x1 < par_continue_max is merged  *)
(* into the open Paragraph: the step emits nothing and opens no buffer,    *)
(* and the buffer is only ever emitted whole, so the rows end up in one    *)
(* block.                                                                  *)
(***************************************************************************)
C8_ContinuationStep ==
    ( /\ AtText
      /\ current_text # <<>>
      /\ ~in_definition
      /\ ~IsDefLine(cfg, ThisLine.bbox)
      /\ ThisLine.bbox[1] < cfg.par_continue_max ) =>
        /\ doc' = doc
        /\ Len(current_text') = Len(current_text)
        /\ current_src' = current_src \cup {ThisRow}
        /\ current_style' = current_style
        /\ ~in_definition'

C8_EmittedWhole ==
    \A k \in 1..Len(Added) :
        Added[k].src \cap current_src # {} => Added[k].src = current_src

C9_Flushed ==
    IF current_text # <<>>
    THEN <<P(current_style, Join(<<>>, current_text), current_src)>>
    ELSE <<>>

C9_RuleStep ==
    AtText =>
        LET x1   == ThisLine.bbox[1]
            cont == x1 < cfg.par_continue_max /\ current_text # <<>>
            ind  == cfg.par_indent_min <= x1 /\ x1 <= cfg.par_indent_max
        IN  IF DefinitionCase
            THEN \/ in_definition' /\ ThisRow \in def_src'
                 \/ \E k \in 1..Len(Added) :
                        Added[k].style = "Definition" /\ ThisRow \in Added[k].src
            ELSE IF cont
            THEN doc' = doc /\ current_src' = current_src \cup {ThisRow}
            ELSE IF ind
            THEN /\ Added = C9_Flushed
                 /\ current_text' = <<[k \in 1..cfg.par_indent_spaces |-> " "] \o ThisText>>
                 /\ current_src' = {ThisRow}
            ELSE \/ prev_ends_with_hyphen /\ current_text # <<>>
                 \/ /\ IsPrefix(C9_Flushed, Added)
                    /\ \/ current_text' = <<ThisText>> /\ current_src' = {ThisRow}
                       \/ /\ ThisText[1] = "*"
                          /\ Added[Len(Added)].text = ThisText
                          /\ Added[Len(Added)].src = {ThisRow}

C9_RulePriority == [][C9_RuleStep]_vars

\* an indented row has just flushed the open Paragraph and started a buffer
\* with the indent prefix
C9_Witness ==
    /\ pc = "line"
    /\ i >= 2
    /\ current_src = {<<idx, i - 1>>}
    /\ InIndentRange(cfg, lines[i].bbox[1])
    /\ current_text = <<Spaces(cfg.par_indent_spaces) \o Strip(lines[i].text)>>
    /\ doc # <<>>
    /\ Last(doc).src = {<<idx, i - 2>>}
    /\ Last(doc).style \in FlowStyles

(***************************************************************************)
(* C10: the style of a paragraph-flow block is the style of the row that   *)
(* opened it: Footnote when that text starts with "*", else Heading when   *)
(* it is upper case and longer than 10 characters (10 is not enough), else *)
(* Paragraph; rows merged later do not change it and the block is emitted  *)
(* with it.                                                                *)
(***************************************************************************)
C10_Opening(src) == CHOOSE r \in src : \A q \in src : q = r \/ RowLess(r, q)

C10_Style(t) ==
    IF t[1] = "*" THEN "Footnote"
    ELSE IF IsUpperStr(t) /\ Len(t) > 10 THEN "Heading"
    ELSE "Paragraph"

C10_StyleOfOpening(src) == C10_Style(Strip(RowAt(C10_Opening(src)).text))

C10_Styled ==
    /\ current_text # <<>> => current_style = C10_StyleOfOpening(current_src)
    /\ \A k \in 1..Len(doc) :
          (doc[k].src # {} /\ doc[k].style # "Definition") =>
              doc[k].style = C10_StyleOfOpening(doc[k].src)

C10_MergeKeepsStyle == ParagraphMerge => current_style' = current_style

C10_StyleFrozen == []C10_Styled /\ [][C10_MergeKeepsStyle]_vars

\* a Heading block is out that holds its opening row and a merged row whose
\* own style would be Paragraph
C10_Witness ==
    /\ pc = "done"
    /\ \E k \in 1..Len(doc) :
          /\ doc[k].style = "Heading"
          /\ Cardinality(doc[k].src) = 2
          /\ \E r \in doc[k].src : C10_Style(Strip(RowAt(r).text)) = "Paragraph"

(***************************************************************************)
(* C11: the state of the reassembler is scoped to one page.  When the      *)
(* first row of a page is about to be handled no Paragraph and no          *)
(* Definition is open and the hyphen flag is false; the rows of every      *)
(* buffer and of every emitted block belong to one file, so the first row  *)
(* of a page is never joined to text of the previous page.                 *)
(***************************************************************************)
C11_IdleAtPageStart ==
    (pc = "line" /\ i = 0) =>
        /\ current_text = <<>>
        /\ def_text = <<>>
        /\ ~in_definition
        /\ ~prev_ends_with_hyphen

C11_OnePage(src) == \A a, b \in src : a[1] = b[1]

C11_PageScoped ==
    /\ C11_IdleAtPageStart
    /\ pc = "line" => \A r \in current_src \cup def_src : r[1] = idx
    /\ \A k \in 1..Len(doc) : C11_OnePage(doc[k].src)

\* the previous page ended in a Paragraph with a trailing hyphen, the first
\* row of this page has x1 < par_continue_max, and it opened a buffer of its own
C11_Witness ==
    /\ pc = "line"
    /\ idx = 1
    /\ i = 1
    /\ lines[1].bbox[1] < cfg.par_continue_max
    /\ current_src = {<<1, 0>>}
    /\ current_text = <<TextVal(lines[1])>>
    /\ Len(doc) >= 2
    /\ doc[Len(doc)] = PageBreakP
    /\ doc[Len(doc) - 1].style = "Paragraph"
    /\ EndsWith(doc[Len(doc) - 1].text, <<"-">>)

(***************************************************************************)
(* C12: a document assembled from N >= 1 files has exactly N-1 PageBreak   *)
(* blocks.  The head of the file loop emits one, and nothing else, for     *)
(* every file but the first; no other step emits one; so the number of     *)
(* PageBreak blocks ahead of a block is the index of the file its rows     *)
(* come from.                                                              *)
(***************************************************************************)
IsPageBreak(p) == p.style = "PageBreakParagraph"

PageBreaksBefore(k) == Cardinality({j \in 1..(k - 1) : IsPageBreak(doc[j])})

C12_Counted ==
    /\ pc = "line" => PageBreaksBefore(Len(doc) + 1) = idx
    /\ (pc \in {"save", "done"} /\ Len(tsv_files) >= 1) =>
           PageBreaksBefore(Len(doc) + 1) = Len(tsv_files) - 1
    /\ \A k \in 1..Len(doc) : \A r \in doc[k].src : PageBreaksBefore(k) = r[1]

C12_Step ==
    /\ pc = "page" => Added = IF idx > 0 THEN <<PageBreakP>> ELSE <<>>
    /\ pc # "page" => \A k \in 1..Len(Added) : ~IsPageBreak(Added[k])

C12_PageBreaks == []C12_Counted /\ [][C12_Step]_vars

\* three files with a block each: two PageBreak blocks
C12_Witness ==
    /\ pc = "done"
    /\ Len(tsv_files) = 3
    /\ PageBreaksBefore(Len(doc) + 1) = 2
    /\ \A f \in 0..2 : \E k \in 1..Len(doc) : \E r \in doc[k].src : r[1] = f

(***************************************************************************)
(* C13: the line loop of a page consumes the rows one by one and ends;     *)
(* the step that ends it emits the open Definition and the open Paragraph, *)
(* if any, as the last blocks of the page, so that no buffered row is left *)
(* unemitted, and only then does the next page start.                      *)
(***************************************************************************)
C13_Final ==
    (IF in_definition /\ def_text # <<>>
     THEN <<P("Definition", Join(<<" ">>, def_text), def_src)>> ELSE <<>>)
    \o (IF current_text # <<>>
        THEN <<P(current_style, Join(<<>>, current_text), current_src)>> ELSE <<>>)

C13_EndStep ==
    (pc = "line" /\ i >= Len(lines)) =>
        /\ pc' \in {"page", "save"}
        /\ idx' = idx + 1
        /\ i = Len(lines)
        /\ Added = C13_Final
        /\ doc' = doc \o C13_Final
        /\ def_src' = {} /\ def_text' = <<>> /\ ~in_definition'
        /\ current_src' # {} => Last(doc').src = current_src'

C13_LineStep == (pc = "line" /\ i < Len(lines)) => (pc' = "line" /\ i' = i + 1)

C14_SkipStep ==
    (pc = "line" /\ i < Len(lines) /\ Strip(RowAt(ThisRow).text) = <<>>) =>
        /\ i' = i + 1
        /\ UNCHANGED <<doc, current_text, current_style, current_src, def_text,
                       def_src, in_definition, prev_ends_with_hyphen>>

C14_BlankSkipped == [][C14_SkipStep]_vars

(***************************************************************************)
(* C15: assemble_odt is deterministic: a second call on the same assembler *)
(* with the same list of files ends with the same sequence of blocks       *)
(* (styles, texts, order) as the first call.                               *)
(***************************************************************************)
C15_SameDocument == (caller.calls = 2 /\ pc = "done") => doc = caller.first_doc

\* a second call is over whose document has blocks of two pages
C15_Witness ==
    /\ caller.calls = 2
    /\ pc = "done"
    /\ \E k \in 1..Len(doc) : IsPageBreak(doc[k])
    /\ \E k \in 1..Len(doc) : doc[k].src # {}

(***************************************************************************)
(* C16: two pages, the first an upper-case title row (longer than 10       *)
(* characters) away from the margins and an indented paragraph row, the    *)
(* second one row that starts with "*": the document is Heading,           *)
(* Paragraph, PageBreak, Divider, Footnote and nothing else.               *)
(***************************************************************************)
C16_Scenario ==
    /\ Len(tsv_files) = 2
    /\ Len(tsv_files[1].rows) = 2
    /\ Len(tsv_files[2].rows) = 1
    /\ LET title == tsv_files[1].rows[1]
           para  == tsv_files[1].rows[2]
           note  == tsv_files[2].rows[1]
       IN  /\ StyleOf(Strip(title.text)) = "Heading"
           /\ title.bbox[1] > cfg.par_indent_max
           /\ ~IsDefLine(cfg, title.bbox)
           /\ InIndentRange(cfg, para.bbox[1])
           /\ StyleOf(Strip(para.text)) = "Paragraph"
           /\ StartsWith(Strip(note.text), <<"*">>)

C16_EndToEnd ==
    (pc = "done" /\ C16_Scenario) =>
        [k \in 1..Len(doc) |-> doc[k].style] =
            <<"Heading", "Paragraph", "PageBreakParagraph", "Divider", "Footnote">>

(***************************************************************************)
(* Vocabulary of the word grouper properties.                              *)
(***************************************************************************)
\* the indices (0-based) of the words the loop does not skip
Retained == {j \in 0..(Len(grouper.words) - 1) : ~Skipped(grouper.words[j + 1])}

WordAt(j) == grouper.words[j + 1]

\* the word the step leaving this state handles
AtWord == grouper.pc = "loop" /\ grouper.i < Len(grouper.words)

(***************************************************************************)
(* C17: the lines of the word grouper carry the line_no values 0, 1, ...,  *)
(* n-1 in output order, at every moment of the call and in the list it     *)
(* returns, also when words are skipped.                                   *)
(***************************************************************************)
C17_LineNumbers ==
    grouper.pc # "idle" =>
        /\ \A k \in 1..Len(grouper.lines) : grouper.lines[k].line_no = k - 1
        /\ grouper.pc = "loop" => grouper.line_no = Len(grouper.lines)

\* two lines are returned and a skipped word stood between their words
C17_Witness ==
    /\ grouper.pc = "done"
    /\ Len(grouper.lines) = 2
    /\ \E j \in 0..(Len(grouper.words) - 1) :
          /\ j \notin Retained
          /\ \E a \in grouper.lines[1].src : a < j
          /\ \E b \in grouper.lines[2].src : j < b

(***************************************************************************)
(* C18: in the list the word grouper returns every retained word is in     *)
(* exactly one line; two retained words are in the same line iff every     *)
(* retained word from the one to the other has the same (block_num,        *)
(* par_num, line_num) key, that is, iff they belong to one run of          *)
(* consecutive retained words with one key; the lines are in input order;  *)
(* the text of a line is the trimmed texts of its words in an order of     *)
(* non-decreasing left x, joined by single spaces; its bbox is the min/max *)
(* union of the boxes of its words.                                        *)
(***************************************************************************)
C18_SameRun(a, b) ==
    \A m \in Retained : (Min(a, b) <= m /\ m <= Max(a, b)) => WordKey(WordAt(m)) = WordKey(WordAt(a))

C18_LineOf(j) == CHOOSE k \in 1..Len(grouper.lines) : j \in grouper.lines[k].src

\* the orders of the words of src in which left x does not decrease
C18_Orders(src) ==
    {f \in [1..Cardinality(src) -> src] :
        /\ \A p, q \in 1..Cardinality(src) : p < q =>
              /\ f[p] # f[q]
              /\ WordAt(f[p]).left <= WordAt(f[q]).left}

C18_MinOf(S) == CHOOSE x \in S : \A y \in S : x <= y
C18_MaxOf(S) == CHOOSE x \in S : \A y \in S : y <= x

C18_Union(src) ==
    << C18_MinOf({WordAt(j).left : j \in src}),
       C18_MinOf({WordAt(j).top : j \in src}),
       C18_MaxOf({WordAt(j).left + WordAt(j).width : j \in src}),
       C18_MaxOf({WordAt(j).top + WordAt(j).height : j \in src}) >>

C18_Grouping ==
    grouper.pc = "done" =>
        /\ \A j \in Retained :
              Cardinality({k \in 1..Len(grouper.lines) : j \in grouper.lines[k].src}) = 1
        /\ \A k \in 1..Len(grouper.lines) :
              grouper.lines[k].src # {} /\ grouper.lines[k].src \subseteq Retained
        /\ \A a, b \in Retained : (C18_LineOf(a) = C18_LineOf(b)) <=> C18_SameRun(a, b)
        /\ \A a, b \in Retained : a < b => C18_LineOf(a) <= C18_LineOf(b)
        /\ \A k \in 1..Len(grouper.lines) :
              LET ln == grouper.lines[k]
              IN  /\ \E f \in C18_Orders(ln.src) :
                        ln.text = Join(<<" ">>, [p \in 1..Len(f) |-> Strip(WordAt(f[p]).text)])
                  /\ ln.bbox = C18_Union(ln.src)

\* a line of two words that came in right-to-left order, and a second line
C18_Witness ==
    /\ grouper.pc = "done"
    /\ Len(grouper.lines) = 2
    /\ \E a, b \in grouper.lines[1].src : a < b /\ WordAt(b).left < WordAt(a).left
    /\ grouper.lines[1].text = <<"b", " ", "a">>

(***************************************************************************)
(* C19: the word grouper never aborts.  A word with empty trimmed text,    *)
(* with a width or height that is not positive, or with a malformed or     *)
(* missing field is passed over with the current group, the current bbox,  *)
(* the previous key, line_no and the lines unchanged; every word is passed *)
(* in one step and then the call returns; the list it returns is the list  *)
(* it returns for the input without those words, and is empty when no word *)
(* is retained.                                                            *)
(***************************************************************************)
C19_Noise(w) ==
    \/ w.bad # "none"
    \/ Strip(w.text) = <<>>
    \/ w.width <= 0
    \/ w.height <= 0

C19_SkipStep ==
    (AtWord /\ C19_Noise(WordAt(grouper.i))) =>
        grouper' = [grouper EXCEPT !.i = grouper.i + 1]

\* every word is passed in one step, then the call returns
C19_Step ==
    /\ AtWord => (grouper'.pc = "loop" /\ grouper'.i = grouper.i + 1)
    /\ (grouper.pc = "loop" /\ ~AtWord) => grouper'.pc = "done"

C19_Clean == SelectSeq(grouper.words, LAMBDA w : ~C19_Noise(w))

C19_Returned ==
    [k \in 1..Len(grouper.lines) |->
        [page |-> grouper.lines[k].page, line_no |-> grouper.lines[k].line_no,
         text |-> grouper.lines[k].text, bbox |-> grouper.lines[k].bbox]]

C19_Result ==
    /\ grouper.pc \in {"loop", "done"}
    /\ grouper.pc = "done" =>
          /\ C19_Returned = GroupWordsIntoLines(C19_Clean, grouper.page_num)
          /\ C19_Clean = <<>> => grouper.lines = <<>>

C19_SkipsNoise == []C19_Result /\ [][C19_SkipStep /\ C19_Step]_vars

\* the call has returned a line of two words between which every kind of
\* skipped word could stand: here one stood
C19_Witness ==
    /\ grouper.pc = "done"
    /\ Len(grouper.lines) = 1
    /\ Len(grouper.words) = 3
    /\ grouper.lines[1].src = {0, 2}
    /\ C19_Noise(grouper.words[2])

(***************************************************************************)
(* C20: the classifier answers TITLE iff the text has at least one         *)
(* alphabetic character and either the share of upper-case letters among   *)
(* its letters is at least caps_ratio (inclusive: exactly 70% under the    *)
(* default is TITLE) or the line is centered (the bool flag when one is    *)
(* passed, else the centre of the bbox within center_tolerance_px of the   *)
(* centre of the image); in every other case, a centered line without      *)
(* letters included, it answers PARAGRAPH.                                 *)
(***************************************************************************)
C20_Alpha == {k \in 1..Len(classifier.text) : classifier.text[k] \in LowerChars \cup UpperChars}

C20_Caps == {k \in C20_Alpha : classifier.text[k] \in UpperChars}

C20_Centered ==
    IF classifier.centered.bool THEN classifier.centered.value
    ELSE LET d == classifier.bbox[1] + classifier.bbox[3] - classifier.image_width
         IN  -2 * classifier.config.center_tolerance_px <= d
             /\ d <= 2 * classifier.config.center_tolerance_px

C20_TitleRule ==
    classifier.pc = "done" =>
        /\ classifier.cls \in {"TITLE", "PARAGRAPH"}
        /\ classifier.cls = "TITLE" <=>
              /\ C20_Alpha # {}
              /\ \/ Cardinality(C20_Caps) * classifier.config.caps_ratio[2]
                       >= classifier.config.caps_ratio[1] * Cardinality(C20_Alpha)
                 \/ C20_Centered

\* a line that is not centered, with 7 upper-case letters out of 10, is TITLE
C20_Witness ==
    /\ classifier.pc = "done"
    /\ classifier.cls = "TITLE"
    /\ ~C20_Centered
    /\ Cardinality(C20_Caps) = 7
    /\ Cardinality(C20_Alpha) = 10

(***************************************************************************)
(* C21: classify_lines returns, and writes to the JSONL file, exactly one  *)
(* classification per row of the file, in the order of the rows: the       *)
(* result is as long as the input, for every input, the files written      *)
(* from the lines of the word grouper included.                            *)
(***************************************************************************)
C21_OnePerLine ==
    classifier.pc \in {"done", "raised"} =>
        /\ classifier.pc = "done"
        /\ Len(classifier.result) = Len(classifier.df)
        /\ \A k \in 1..Len(classifier.df) :
               classifier.result[k].line_no = classifier.df[k].line_no
        /\ Len(classifier.jsonl) = Len(classifier.df)

(***************************************************************************)
(* C22: the centered attribute of a line is derived from its geometry: the *)
(* line counts as centered iff the midpoint of its bbox is within          *)
(* center_tolerance_px of half the image width, whatever flag comes with   *)
(* the line; so TITLE is answered iff the text has a letter and the caps   *)
(* ratio is reached or the line is centered by this geometry.              *)
(***************************************************************************)
C22_Geometry ==
    LET d == classifier.bbox[1] + classifier.bbox[3] - classifier.image_width
    IN  -2 * classifier.config.center_tolerance_px <= d
            /\ d <= 2 * classifier.config.center_tolerance_px

C22_CenteredFromGeometry ==
    classifier.pc = "done" =>
        (classifier.cls = "TITLE" <=>
            /\ C20_Alpha # {}
            /\ \/ Cardinality(C20_Caps) * classifier.config.caps_ratio[2]
                     >= classifier.config.caps_ratio[1] * Cardinality(C20_Alpha)
               \/ C22_Geometry)

(***************************************************************************)
(* C23: classification is advisory: the blocks the assembler emits for a   *)
(* run are the same whatever labels (cls, centered) come with the lines    *)
(* and when no classifier has run at all.  Every labelling gives the       *)
(* document of the unlabelled files, so any two labellings give the same   *)
(* document; and the blocks are made of style, text and history only.      *)
(***************************************************************************)
C23_SameBlocks == (caller.calls = 2 /\ pc = "done") => doc = caller.first_doc

C23_BlocksOnly == \A k \in 1..Len(doc) : DOMAIN doc[k] = {"style", "text", "src"}

C23_Advisory == C23_SameBlocks /\ C23_BlocksOnly

\* both runs are over; the first one had a line of lower-case text labelled
\* TITLE and centered, and the document has a block
C23_Witness ==
    /\ caller.calls = 2
    /\ pc = "done"
    /\ doc # <<>>
    /\ \E k \in 1..Len(caller.tsv_files) : \E j \in 1..Len(caller.tsv_files[k].rows) :
           /\ caller.tsv_files[k].rows[j].cls = "TITLE"
           /\ caller.tsv_files[k].rows[j].text = tPle

(***************************************************************************)
(* C24: whatever order the page tasks complete in, the files are sorted    *)
(* by page number before assembly: from the head of the file loop on, the  *)
(* files of the call, and with them the pages of the document, are in      *)
(* ascending numeric order of their page numbers, for every set of page    *)
(* numbers.                                                                *)
(***************************************************************************)
C24_AscendingPages ==
    pc \notin {"idle", "begin"} =>
        \A a, b \in 1..Len(tsv_files) :
            a < b => tsv_files[a].page_num <= tsv_files[b].page_num

(***************************************************************************)
(* C25: the page tasks share no mutable state: no page file is written by  *)
(* two tasks, and when the run is over every input image has contributed   *)
(* exactly one page (one file of the call, written by the task of that     *)
(* image alone).                                                           *)
(***************************************************************************)
C25_OneWriter ==
    \A p \in DOMAIN pipeline.fs : Cardinality(pipeline.fs[p].writers) <= 1

C25_OnePageEach ==
    pipeline.pc = "done" =>
        \A im \in pipeline.images :
            Cardinality({k \in 1..Len(tsv_files) :
                            pipeline.fs[tsv_files[k].page_num].writers = {im}}) = 1

C25_NoSharedState == C25_OneWriter /\ C25_OnePageEach

(***************************************************************************)
(* C26: the failure of one page is contained: the run fails as a whole     *)
(* only when every page has failed, so never after a page task has         *)
(* written its file; otherwise it goes on and assembles the document from  *)
(* the remaining pages.                                                    *)
(***************************************************************************)
C26_FailureContained ==
    pipeline.pc = "failed" =>
        \A p \in DOMAIN pipeline.fs : ~pipeline.fs[p].exists

(***************************************************************************)
(* C29: empty input is not an error: a run that has no page, or whose      *)
(* pages have no line, and in which no page task fails, completes and      *)
(* saves a document without a block of text.                               *)
(***************************************************************************)
C29_NoLines ==
    \A im \in pipeline.images : HasNumber(im) => im.lines = <<>>

C29_EmptyInput ==
    C29_NoLines =>
        /\ (pipeline.pc = "failed" => pipeline.params_list # <<>>)
        /\ (pipeline.pc = "done" =>
                /\ saved
                /\ \A k \in 1..Len(doc) : IsPageBreak(doc[k]))

(***************************************************************************)
(* C27: a malformed line record (a bbox that is missing or does not        *)
(* parse) is dropped alone: the call still comes to its end, and every     *)
(* well-formed row that has text is in a block of the document.            *)
(***************************************************************************)
C27_WellFormed ==
    {r \in {<<k - 1, j - 1>> : k \in 1..Len(tsv_files), j \in 1..MaxLinesBad + 1} :
        /\ r[2] < Len(tsv_files[r[1] + 1].rows)
        /\ tsv_files[r[1] + 1].rows[r[2] + 1].bbox # Malformed
        /\ Strip(tsv_files[r[1] + 1].rows[r[2] + 1].text) # <<>>}

C27_RecordDropped ==
    pc \in {"done", "raised"} =>
        /\ pc = "done"
        /\ \A r \in C27_WellFormed : \E k \in 1..Len(doc) : r \in doc[k].src

(***************************************************************************)
(* C28: the output file is written exactly once per run, by the one save   *)
(* at the end of assemble_odt, and only after the blocks of every page     *)
(* are in the document: the only step that changes saved is the save,      *)
(* taken when the file loop is over, and it leaves the document as it is;  *)
(* a call that has ended has saved iff it did not raise, so a run that     *)
(* fails before the save writes no file.                                   *)
(***************************************************************************)
C28_SaveStep ==
    saved' # saved =>
        /\ ~saved /\ saved'
        /\ pc = "save" /\ pc' = "done"
        /\ idx = Len(tsv_files)
        /\ doc' = doc

C28_Saved ==
    /\ saved <=> pc = "done"
    /\ pc = "raised" => ~saved

C28_WrittenOnce == []C28_Saved /\ [][C28_SaveStep]_vars

\* a run over two pages has saved its document
C28_Witness ==
    /\ pc = "done"
    /\ saved
    /\ Len(tsv_files) = 2
    /\ \E k \in 1..Len(doc) : IsPageBreak(doc[k])
    /\ Len(doc) >= 3

(***************************************************************************)
(* C30: the style table is registered before the first element is added    *)
(* (the document has no element before the head of the file loop), and     *)
(* every element of the document, spacers, dividers and page breaks        *)
(* included, carries one of the registered names Paragraph, Heading,       *)
(* Footnote, Definition, Divider, PageBreakParagraph.                      *)
(***************************************************************************)
C30_StylesRegistered ==
    /\ pc = "begin" => doc = <<>>
    /\ \A k \in 1..Len(doc) : doc[k].style \in EnsureStyles

(***************************************************************************)
(* Gaps of the page at hand.  The heights are those of all rows of the     *)
(* page; a gap g is large when g > def_gap_min and g is more than          *)
(* def_gap_threshold times the mean height, def_gap_threshold being kept   *)
(* in tenths.                                                              *)
(***************************************************************************)
HeightSum == SumSeq([k \in 1..Len(lines) |-> lines[k].bbox[4] - lines[k].bbox[2]])

LargeGap(g) ==
    /\ g > cfg.def_gap_min
    /\ 10 * g * Len(lines) > cfg.def_gap_threshold10 * HeightSum

(***************************************************************************)
(* C31: a step that opens a Definition afresh (a row of the window while   *)
(* no Definition is open) first emits the open Paragraph, if there is one, *)
(* and then a Spacer iff the row is not the first row of its page and the  *)
(* gap from the bottom of the previous row to the top of this row exceeds  *)
(* max(def_gap_min, def_gap_threshold x avg_line_height), the mean being   *)
(* taken over all rows of the page; whatever else the step emits starts    *)
(* with the Definition, so a Definition opening on the first row of a page *)
(* has no Spacer before it.                                                *)
(***************************************************************************)
C31_Opening == AtText /\ IsDefLine(cfg, ThisLine.bbox) /\ ~in_definition

C31_SpacerDue == i > 0 /\ LargeGap(ThisLine.bbox[2] - lines[i].bbox[4])

C31_Step ==
    C31_Opening =>
        LET par    == IF current_text # <<>>
                      THEN <<P(current_style, Join(<<>>, current_text), current_src)>>
                      ELSE <<>>
            spacer == IF C31_SpacerDue THEN <<SpacerP>> ELSE <<>>
            head   == par \o spacer
        IN  /\ IsPrefix(head, Added)
            /\ Len(Added) > Len(head) => Added[Len(head) + 1].style = "Definition"
            /\ current_text' = <<>>

C31_SpacerBeforeDefinition == [][C31_Step]_vars

\* a Paragraph, a Spacer and a Definition in a row: the Definition was opened
\* more than the threshold below the row before it, with a Paragraph open
C31_Witness ==
    /\ pc = "done"
    /\ \E k \in 1..(Len(doc) - 2) :
          /\ doc[k].style = "Paragraph"
          /\ doc[k + 1] = SpacerP
          /\ doc[k + 2].style = "Definition"

(***************************************************************************)
(* C32: a step that appends a row to the open Definition (a row with text  *)
(* handled in the definition branch) closes the Definition iff there is no *)
(* next row or the x1, x2 of the next row are outside the window widened   *)
(* by 50 px on each boundary.  A close emits exactly one Definition block, *)
(* which holds this row; with a next row present it is followed by exactly *)
(* one Spacer iff the gap to the next row exceeds max(def_gap_min,         *)
(* def_gap_threshold x avg_line_height) or the x1 of the next row is in    *)
(* [par_indent_min, par_indent_max], and by nothing otherwise.  When the   *)
(* Definition stays open, no Definition block is emitted.                  *)
(***************************************************************************)
C32_HasNext == i + 1 < Len(lines)

C32_NextMatches ==
    /\ C32_HasNext
    /\ cfg.def_left_min - 50 <= lines[i + 2].bbox[1]
    /\ lines[i + 2].bbox[1] <= cfg.def_left_max + 50
    /\ cfg.def_right_min - 50 <= lines[i + 2].bbox[3]
    /\ lines[i + 2].bbox[3] <= cfg.def_right_max + 50

C32_SpacerDue ==
    /\ C32_HasNext
    /\ \/ LargeGap(lines[i + 2].bbox[2] - ThisLine.bbox[4])
       \/ (cfg.par_indent_min <= lines[i + 2].bbox[1]
              /\ lines[i + 2].bbox[1] <= cfg.par_indent_max)

C32_Step ==
    (AtText /\ DefinitionCase) =>
        LET trailing == IF C32_SpacerDue THEN <<SpacerP>> ELSE <<>>
            n        == Len(Added)
            at       == n - Len(trailing)
        IN  /\ in_definition' <=> C32_NextMatches
            /\ C32_NextMatches =>
                  /\ \A k \in 1..n : Added[k].style # "Definition"
                  /\ ThisRow \in def_src'
            /\ ~C32_NextMatches =>
                  /\ at >= 1
                  /\ Added[at].style = "Definition"
                  /\ ThisRow \in Added[at].src
                  /\ SubSeq(Added, at + 1, n) = trailing
                  /\ \A k \in 1..(at - 1) : Added[k].style # "Definition"
                  /\ def_text' = <<>>

C32_CloseOnLookAhead == [][C32_Step]_vars

\* a Definition, a Spacer and the block of a row that is 49 px below the
\* Definition and not in the indent range
C32_Witness ==
    /\ pc = "done"
    /\ \E k \in 1..(Len(doc) - 2) :
          /\ doc[k].style = "Definition"
          /\ doc[k + 1] = SpacerP
          /\ \E r \in doc[k + 2].src : RowAt(r).bbox[1] = 700

(***************************************************************************)
(* C33: when the rows of a page are exhausted while a Definition is open,  *)
(* the buffered text is emitted as a Definition block and the Definition   *)
(* is closed; when the row appended to the Definition is the last row of   *)
(* the page, the Definition block is the last element the step emits.  The *)
(* end of a page emits no Spacer, and a Definition block that is followed  *)
(* by a Spacer has a next row on its page, outside the widened window.     *)
(***************************************************************************)
C33_PageEnd == pc = "line" /\ i >= Len(lines)

C33_LastRow(b) == CHOOSE r \in b.src : \A q \in b.src : ~RowLess(r, q)

C33_Step ==
    /\ (C33_PageEnd /\ in_definition) =>
          /\ Len(Added) >= 1
          /\ Added[1].style = "Definition"
          /\ Added[1].text = Join(<<" ">>, def_text)
          /\ Added[1].src = def_src
          /\ ~in_definition'
          /\ def_text' = <<>>
    /\ C33_PageEnd => \A k \in 1..Len(Added) : Added[k] # SpacerP
    /\ (AtText /\ DefinitionCase /\ i + 1 = Len(lines)) =>
          /\ Len(Added) >= 1
          /\ Added[Len(Added)].style = "Definition"
          /\ ThisRow \in Added[Len(Added)].src
          /\ ~in_definition'

C33_NoSpacerAtEnd ==
    \A k \in 1..(Len(doc) - 1) :
        (doc[k].style = "Definition" /\ doc[k + 1] = SpacerP) =>
            LET r    == C33_LastRow(doc[k])
                rows == tsv_files[r[1] + 1].rows
            IN  /\ r[2] + 1 < Len(rows)
                /\ ~NextIsDef(cfg, rows[r[2] + 2].bbox)

C33_FlushAtPageEnd == []C33_NoSpacerAtEnd /\ [][C33_Step]_vars

\* a page has ended on a blank row inside the window with the Definition
\* open, and the Definition block is the last element of the document
C33_Witness ==
    /\ pc \in {"page", "save"}
    /\ idx >= 1
    /\ Len(doc) >= 1
    /\ doc[Len(doc)].style = "Definition"
    /\ LET rows == tsv_files[idx].rows
       IN  /\ Len(rows) >= 2
           /\ rows[Len(rows)].text = tBlank
           /\ NextIsDef(cfg, rows[Len(rows)].bbox)
           /\ <<idx - 1, Len(rows) - 2>> \in doc[Len(doc)].src

(***************************************************************************)
(* C34: two consecutive rows of a page that both have text and both match  *)
(* the definition window are never split: once both are handled they are   *)
(* either both in the open Definition or both in one and the same block of *)
(* the document, a Definition, and in no other block and not in the        *)
(* paragraph buffer; the text holds the text of the first (without the     *)
(* hyphen a join takes away) and then the text of the second.  So a        *)
(* maximal run of such rows comes out as one Definition block.             *)
(***************************************************************************)
C34_Pair(r, q) ==
    LET t == Strip(RowAt(r).text)
    IN  IF EndsWithHyphen(t) THEN RStripHyphen(t) \o Kept(q)
        ELSE t \o <<" ">> \o Kept(q)

C34_RunTogether ==
    \A r \in Handled :
        LET q == <<r[1], r[2] + 1>>
        IN  (/\ q \in Handled
             /\ IsDefLine(cfg, RowAt(r).bbox)
             /\ IsDefLine(cfg, RowAt(q).bbox)) =>
                /\ r \notin current_src /\ q \notin current_src
                /\ \/ /\ in_definition
                      /\ {r, q} \subseteq def_src
                      /\ Contains(Join(<<" ">>, def_text), C34_Pair(r, q))
                      /\ \A k \in 1..Len(doc) : doc[k].src \cap {r, q} = {}
                   \/ /\ def_src \cap {r, q} = {}
                      /\ \E k \in 1..Len(doc) :
                            /\ doc[k].style = "Definition"
                            /\ {r, q} \subseteq doc[k].src
                            /\ Contains(doc[k].text, C34_Pair(r, q))
                            /\ \A j \in 1..Len(doc) :
                                  j # k => doc[j].src \cap {r, q} = {}

\* three rows of the window, the first ending in a hyphen, in one block
C34_Witness ==
    /\ pc = "done"
    /\ \E k \in 1..Len(doc) :
          /\ doc[k].style = "Definition"
          /\ Cardinality(doc[k].src) = 3
          /\ \A r \in doc[k].src : IsDefLine(cfg, RowAt(r).bbox)
          /\ EndsWithHyphen(Strip(RowAt(<<0, 0>>).text))

(***************************************************************************)
(* C35: the step that handles a row whose text starts with "*", outside a  *)
(* Definition, leaves the hyphen flag false and no Paragraph open; and the *)
(* step that handles the row after such a row does not hyphen-join it: it  *)
(* does not, with the hyphen flag set, put the row into the buffer or the  *)
(* block that holds the "*" row.                                           *)
(***************************************************************************)
C35_AfterFootnote ==
    (AtText /\ ~DefinitionCase /\ IsFootnote(ThisText)) =>
        /\ ~prev_ends_with_hyphen'
        /\ current_text' = <<>>

C35_Joined ==
    LET pair == {<<idx, i - 1>>, ThisRow}
    IN  /\ prev_ends_with_hyphen
        /\ \/ pair \subseteq current_src'
           \/ pair \subseteq def_src'
           \/ \E k \in 1..Len(Added) : pair \subseteq Added[k].src

C35_NextRow ==
    (AtText /\ i > 0 /\ IsFootnote(TextVal(lines[i]))) => ~C35_Joined

C35_FootnoteResets == [][C35_AfterFootnote /\ C35_NextRow]_vars

(***************************************************************************)
(* The body of the row loop as a function of the machine state st (hyphen  *)
(* flag h, paragraph buffer ct and its style cs, definition flag ind and   *)
(* buffer dt), the row before (prevs: no row or one), the row itself, the  *)
(* row after (nexts: no row or one) and the average row height: the blocks *)
(* it adds, without their source rows, and the machine state it leaves.    *)
(***************************************************************************)
HandleLine(c, avg, st, prevs, line, nexts) ==
    LET text_val == TextVal(line)
        bbox     == line.bbox
        x1       == bbox[1]
        flushed  == IF st.ct # <<>> THEN <<P(st.cs, Join(<<>>, st.ct), {})>> ELSE <<>>
        hyphen   == EndsWithHyphen(text_val)
    IN  IF text_val = <<>> THEN [added |-> <<>>, st |-> st]
        ELSE IF IsDefLine(c, bbox) \/ st.ind
        THEN LET opening == IsDefLine(c, bbox) /\ ~st.ind
                 next_is_def == nexts # <<>> /\ NextIsDef(c, nexts[1].bbox)
                 before ==
                     IF ~opening THEN <<>>
                     ELSE flushed \o
                          (IF /\ prevs # <<>>
                              /\ GapExceeds(c, avg, Max(0, bbox[2] - prevs[1].bbox[4]))
                           THEN <<SpacerP>> ELSE <<>>)
                 dt0 == IF opening THEN <<>> ELSE st.dt
                 dt1 == IF dt0 # <<>> /\ st.h
                        THEN SetLast(dt0, HyphenJoin(Last(dt0), text_val))
                        ELSE Append(dt0, text_val)
                 close ==
                     IF next_is_def THEN <<>>
                     ELSE <<P("Definition", Join(<<" ">>, dt1), {})>> \o
                          (IF /\ nexts # <<>>
                              /\ \/ GapExceeds(c, avg, Max(0, nexts[1].bbox[2] - bbox[4]))
                                 \/ InIndentRange(c, nexts[1].bbox[1])
                           THEN <<SpacerP>> ELSE <<>>)
             IN  [added |-> before \o close,
                  st |-> [h   |-> next_is_def /\ hyphen,
                          ct  |-> IF opening THEN <<>> ELSE st.ct,
                          cs  |-> st.cs,
                          ind |-> next_is_def,
                          dt  |-> IF next_is_def THEN dt1 ELSE <<>>]]
        ELSE IF x1 < c.par_continue_max /\ st.ct # <<>>
        THEN [added |-> <<>>,
              st |-> [st EXCEPT
                        !.ct = SetLast(st.ct,
                                   IF st.h THEN HyphenJoin(Last(st.ct), text_val)
                                   ELSE Last(st.ct) \o <<" ">> \o text_val),
                        !.h = hyphen]]
        ELSE IF InIndentRange(c, x1)
        THEN [added |-> flushed,
              st |-> [st EXCEPT
                        !.ct = <<Spaces(c.par_indent_spaces) \o text_val>>,
                        !.cs = StyleOf(text_val),
                        !.h = hyphen]]
        ELSE LET join == st.h /\ st.ct # <<>>
                 first == IF join THEN <<>> ELSE flushed
             IN  IF IsFootnote(text_val)
                 THEN [added |-> first \o <<DividerP, P("Footnote", text_val, {})>>,
                       st |-> [st EXCEPT !.ct = <<>>, !.cs = "Paragraph", !.h = FALSE]]
                 ELSE [added |-> first,
                       st |-> [st EXCEPT
                                 !.ct = IF join
                                        THEN SetLast(st.ct, HyphenJoin(Last(st.ct), text_val))
                                        ELSE <<text_val>>,
                                 !.cs = IF join THEN st.cs ELSE StyleOf(text_val),
                                 !.h = hyphen]]

(***************************************************************************)
(* C36: the look-ahead is one row.  The blocks a step of the row loop adds *)
(* while it handles row i, and the machine state it leaves, are a function *)
(* of the machine state before the step, of the rows i-1, i and i+1 (or    *)
(* their absence) and of avg_line_height.  So two pages that agree on the  *)
(* rows 0..i+1 and on avg_line_height, started in the same machine state,  *)
(* add the same blocks up to and including row i.                          *)
(***************************************************************************)
C36_Machine ==
    [h |-> prev_ends_with_hyphen, ct |-> current_text, cs |-> current_style,
     ind |-> in_definition, dt |-> def_text]

C36_Step ==
    (pc = "line" /\ i < Len(lines)) =>
        LET e == HandleLine(cfg, avg_line_height, C36_Machine,
                            IF i > 0 THEN <<lines[i]>> ELSE <<>>,
                            ThisLine,
                            IF i + 1 < Len(lines) THEN <<lines[i + 2]>> ELSE <<>>)
        IN  /\ [k \in 1..Len(Added) |-> [Added[k] EXCEPT !.src = {}]] = e.added
            /\ C36_Machine' = e.st
            /\ i' = i + 1
            /\ pc' = "line"

C36_OneRowAhead == [][C36_Step]_vars

\* a Definition was closed at a row whose next row is outside the widened
\* window although the row after the next is inside it
C36_Witness ==
    /\ pc = "line"
    /\ i >= 1
    /\ i + 1 < Len(lines)
    /\ Len(doc) >= 1
    /\ doc[Len(doc)].style = "Definition"
    /\ <<idx, i - 1>> \in doc[Len(doc)].src
    /\ ~NextIsDef(cfg, lines[i + 1].bbox)
    /\ NextIsDef(cfg, lines[i + 2].bbox)

(***************************************************************************)
(* C37: no text is lost or duplicated.  When the run is done, every row    *)
(* with text is a source row of exactly one block of the document, and the *)
(* text of that block holds the text of the row (without the hyphen a join *)
(* takes away); inside the row loop, a handled row is in exactly one of    *)
(* the paragraph buffer, the definition buffer and the blocks.             *)
(***************************************************************************)
C37_Blocks(r) == {k \in 1..Len(doc) : r \in doc[k].src}

C37_NoTextLost ==
    /\ pc = "line" =>
          \A r \in Handled :
              Cardinality(C37_Blocks(r))
                  + (IF r \in current_src THEN 1 ELSE 0)
                  + (IF r \in def_src THEN 1 ELSE 0) = 1
    /\ pc = "done" =>
          \A r \in Handled :
              /\ Cardinality(C37_Blocks(r)) = 1
              /\ \A k \in C37_Blocks(r) : Contains(doc[k].text, Kept(r))

(***************************************************************************)
(* C38: rows without text have no influence.  When the second file of a    *)
(* run holds the rows of the first file without its blank rows, the blocks *)
(* of the two pages (the elements before and after the page break) are the *)
(* same in style and text.                                                 *)
(***************************************************************************)
C38_HasText(row) == Strip(row.text) # <<>>

C38_Break == CHOOSE k \in 1..Len(doc) : doc[k] = PageBreakP

C38_Blocks(from, to) == [k \in 1..(to - from + 1) |-> [doc[from + k - 1] EXCEPT !.src = {}]]

C38_BlankRowsIgnored ==
    (/\ pc = "done"
     /\ Len(tsv_files) = 2
     /\ tsv_files[2].rows = SelectSeq(tsv_files[1].rows, C38_HasText)) =>
        C38_Blocks(1, C38_Break - 1) = C38_Blocks(C38_Break + 1, Len(doc))

(***************************************************************************)
(* C39: with odt.insert_empty_lines false no Spacer is in the document,    *)
(* and the document never holds more than odt.max_empty_lines Spacers next *)
(* to each other.                                                          *)
(***************************************************************************)
C39_SpacerRun(k, n) == \A j \in k..(k + n - 1) : doc[j] = SpacerP

C39_SpacersConfigured ==
    /\ ~cfg.insert_empty_lines => \A k \in 1..Len(doc) : doc[k] # SpacerP
    /\ \A k \in 1..(Len(doc) - cfg.max_empty_lines) :
          ~C39_SpacerRun(k, cfg.max_empty_lines + 1)

(***************************************************************************)
(* C40: under every interleaving of the run thread, the subprocess and     *)
(* cancel(), a run emits exactly one terminal signal, exactly once: never  *)
(* more than one of sig_finished, sig_error and sig_cancelled is emitted   *)
(* (so sig_cancelled is not emitted twice), one has been emitted when the  *)
(* run thread and cancel() have returned, and sig_finished is not emitted  *)
(* on a run whose cancel() has set the cancellation flag.                  *)
(***************************************************************************)
C40_Emitted(sig) == \E k \in 1..Len(worker.signals) : worker.signals[k] = sig

C40_OneTerminalSignal ==
    /\ Len(worker.signals) <= 1
    /\ (worker.pc = "done" /\ worker.cancel = "idle") => Len(worker.signals) = 1
    /\ ~(worker.cancelled /\ C40_Emitted("sig_finished"))

====
